---------------------------- MODULE Spec2Model ----------------------------
(***************************************************************************)
(* The Champ Timer, tournament edition: the heat timing and standings      *)
(* engine of champ_timer_gui.py (TournamentGUI) and champ_timer_logger.py  *)
(* (TournamentLogger).                                                     *)
(*                                                                         *)
(* Conventions                                                             *)
(*   - A time is an integer number of ten-thousandths of a second, so the  *)
(*     text "1.2345" is 12345 and the text "12345" (float 12345.0) is      *)
(*     123450000.  Python's None is the value None below.                  *)
(*   - A byte or a character is a one-element name: "0".."9", ".", " ",    *)
(*     "x" (a letter), LF, CR, and the two bytes LEAD, CONT of one         *)
(*     two-byte UTF-8 character, which decodes to the character UCHAR.     *)
(*   - A dict is a sequence of entries in insertion order (Python keeps    *)
(*     it, and sorted() is stable over it).                                *)
(*   - Timestamps, widget texts and colours are left out: the program      *)
(*     writes them and never reads them back.  results_text keeps the      *)
(*     times and the winner of the heat shown last, standings_tree the     *)
(*     rows of the standings tree.                                         *)
(*   - A handler of the Tk thread is one step, and so is one round of a    *)
(*     loop of a listening thread or of run_tournament, with everything    *)
(*     it calls.  Ctrl+C reaches the logger at a prompt or between two     *)
(*     rounds of its listening loop.                                       *)
(*   - Spec is the program under either front end; GuiLiveSpec is the GUI  *)
(*     with its scheduling; FramerSpec, ParseSpec and ResolverSpec run the *)
(*     line framer, the parser and the resolver alone over bounded inputs; *)
(*     LedgerSpec processes one result and ListenSpec runs one listening   *)
(*     session from every ledger and assignment of a small universe;       *)
(*     RankSpec refreshes and saves the standings of every ledger of       *)
(*     three competitors.                                                  *)
(***************************************************************************)
EXTENDS Integers, Sequences, FiniteSets, TLC

VARIABLES
    \* ---- TournamentGUI ----
    competitors,              \* self.competitors
    competitor_listbox,       \* self.competitor_listbox (names, in order)
    heat_number,              \* self.heat_number
    current_heat_assignments, \* self.current_heat_assignments
    lane_combos,              \* self.lane_combos[lane].get()
    lane_options,             \* self.lane_combos[lane]['values'] minus '(empty)'
    is_connected,             \* self.is_connected
    is_listening,             \* self.is_listening
    race_btn,                 \* state of self.race_btn
    next_to_race_btn,         \* state of self.next_to_race_btn
    tabs,                     \* notebook tabs 1..3: "disabled" / "normal"
    heats_file,               \* rows of self.heats_file
    standings_file,           \* rows of self.standings_file
    after_queue,              \* callbacks scheduled with root.after(0, ...)
    threads,                  \* running listen_for_race threads
    error_dialog,             \* error box of the pipeline shown by the latest Tk handler
    results_text,             \* the heat shown in the results display
    \* ---- TournamentLogger (it has competitors, heat_number,
    \*      current_heat_assignments, heats_file, standings_file as well) ----
    pc,                       \* where main() stands; "mainloop" in the GUI
    buffer,                   \* the local buffer of run_tournament
    is_running,               \* self.is_running
    printed,                  \* errors printed by the latest step
    \* ---- line framer fed a cut-up byte sequence; in ListenSpec the bytes
    \*      that wait in the port and how many of them have been read ----
    fBytes, fPos, fBuffer, fLines, fCuts,
    \* ---- timer line parser applied to one line ----
    pLine, pTimes,
    \* ---- race resolver applied to one time array ----
    rTimes, rWinner,
    \* ---- standings ranker applied to one ledger: the rows of
    \*      self.standings_tree ----
    standings_tree

guiVars == <<competitors, competitor_listbox, heat_number,
             current_heat_assignments, lane_combos, lane_options,
             is_connected, is_listening, race_btn, next_to_race_btn, tabs,
             heats_file, standings_file, after_queue,
             threads, error_dialog, results_text>>
loggerVars == <<pc, buffer, is_running, printed>>
guiOnlyVars == <<competitor_listbox, lane_combos, lane_options, is_connected,
                 is_listening, race_btn, next_to_race_btn, tabs, after_queue,
                 threads, error_dialog>>
framerVars == <<fBytes, fPos, fBuffer, fLines, fCuts>>
parserVars == <<pLine, pTimes>>
resolverVars == <<rTimes, rWinner>>
rankerVars == <<standings_tree>>
vars == <<guiVars, loggerVars, framerVars, parserVars, resolverVars, rankerVars>>

---------------------------------------------------------------------------
(* Values *)

None == -1

LF == "LF"
CR == "CR"
LEAD == "xC3"
CONT == "xA9"
UCHAR == "U+E9"

Digits == {"0", "1", "2", "3", "4", "5", "6", "7", "8", "9"}

DigitVal(c) ==
    CASE c = "0" -> 0 [] c = "1" -> 1 [] c = "2" -> 2 [] c = "3" -> 3
      [] c = "4" -> 4 [] c = "5" -> 5 [] c = "6" -> 6 [] c = "7" -> 7
      [] c = "8" -> 8 [] c = "9" -> 9

\* str.strip() with no argument removes these (of the characters modelled)
Whitespace == {" ", LF, CR}

NumLanes == 4
Lanes == 1..NumLanes

NoTimes == [l \in Lanes |-> None]

---------------------------------------------------------------------------
(* Sequences *)

IsPrefix(s, t) == Len(s) <= Len(t) /\ SubSeq(t, 1, Len(s)) = s

Drop(s, n) == SubSeq(s, n + 1, Len(s))

Take(s, n) == SubSeq(s, 1, n)

\* index of the first element of s in set S, 0 when there is none
RECURSIVE FindFrom(_, _, _)
FindFrom(s, S, i) ==
    IF i > Len(s) THEN 0
    ELSE IF s[i] \in S THEN i
    ELSE FindFrom(s, S, i + 1)

Find(s, S) == FindFrom(s, S, 1)

Contains(s, c) == \E i \in 1..Len(s) : s[i] = c

RECURSIVE SumSeq(_)
SumSeq(s) == IF s = <<>> THEN 0 ELSE Head(s) + SumSeq(Tail(s))

RECURSIVE MinSeq(_)
MinSeq(s) ==
    IF Len(s) = 1 THEN s[1]
    ELSE LET m == MinSeq(Tail(s)) IN IF s[1] <= m THEN s[1] ELSE m

---------------------------------------------------------------------------
(* Line framer: listen_for_race / run_tournament, the decode and the split *)

\* bytes.decode('utf-8', errors='ignore'): a LEAD byte followed by a CONT
\* byte is one character; a LEAD or CONT byte on its own cannot be decoded
\* and is dropped; every other byte is the ASCII character itself.
RECURSIVE Decode(_)
Decode(bytes) ==
    IF bytes = <<>> THEN <<>>
    ELSE IF bytes[1] = LEAD
    THEN IF Len(bytes) >= 2 /\ bytes[2] = CONT
         THEN <<UCHAR>> \o Decode(Drop(bytes, 2))
         ELSE Decode(Tail(bytes))
    ELSE IF bytes[1] = CONT THEN Decode(Tail(bytes))
    ELSE <<bytes[1]>> \o Decode(Tail(bytes))

\* str.strip()
RECURSIVE LStrip(_)
LStrip(s) ==
    IF s # <<>> /\ s[1] \in Whitespace THEN LStrip(Tail(s)) ELSE s

RECURSIVE RStrip(_)
RStrip(s) ==
    IF s # <<>> /\ s[Len(s)] \in Whitespace
    THEN RStrip(Take(s, Len(s) - 1)) ELSE s

Strip(s) == RStrip(LStrip(s))

\* the position the buffer is split at:
\*   if '\n' in buffer: buffer.split('\n', 1) else: buffer.split('\r', 1)
SplitAt(buf) ==
    IF Contains(buf, LF) THEN Find(buf, {LF}) ELSE Find(buf, {CR})

\* the split with the test `if line:` left out: a line that is empty after
\* strip() is yielded too
RECURSIVE SplitLines_KeepsEmpty(_)
SplitLines_KeepsEmpty(buf) ==
    IF ~(Contains(buf, LF) \/ Contains(buf, CR)) THEN <<<<>>, buf>>
    ELSE LET k == SplitAt(buf)
             line == Strip(Take(buf, k - 1))
             rest == SplitLines_KeepsEmpty(Drop(buf, k))
         IN <<<<line>> \o rest[1], rest[2]>>

\* while '\n' in buffer or '\r' in buffer: one line per round, stripped,
\* empty lines dropped.  The result is <<lines, remaining buffer>>.
RECURSIVE SplitLines(_)
SplitLines(buf) ==
    IF ~(Contains(buf, LF) \/ Contains(buf, CR)) THEN <<<<>>, buf>>
    ELSE LET k == SplitAt(buf)
             line == Strip(Take(buf, k - 1))
             rest == SplitLines(Drop(buf, k))
         IN <<(IF line # <<>> THEN <<line>> ELSE <<>>) \o rest[1], rest[2]>>

---------------------------------------------------------------------------
(* Timer line parser: parse_timer_data *)

\* length of the run of digits of s that starts at position i
RECURSIVE DigitRun(_, _)
DigitRun(s, i) ==
    IF i <= Len(s) /\ s[i] \in Digits THEN 1 + DigitRun(s, i + 1) ELSE 0

\* the value of the digits s[i..j] as an integer
RECURSIVE DigitsVal(_, _, _)
DigitsVal(s, i, j) ==
    IF j < i THEN 0 ELSE DigitsVal(s, i, j - 1) * 10 + DigitVal(s[j])

\* re.match of (\d+\.?\d{4}) at position i: the length matched, 0 for no
\* match.  \d+ is greedy: it first takes the whole run of n digits, and then
\* the pattern needs '.' and four digits; failing that \d+ gives digits back
\* until four of the run are left for \d{4}, which needs n >= 5.
MatchLen(s, i) ==
    LET n == DigitRun(s, i)
    IN IF n = 0 THEN 0
       ELSE IF i + n <= Len(s) /\ s[i + n] = "." /\ DigitRun(s, i + n + 1) >= 4
            THEN n + 5
       ELSE IF n >= 5 THEN n
       ELSE 0

\* float(match), in ten-thousandths
FloatOf(s, i, len) ==
    IF Contains(SubSeq(s, i, i + len - 1), ".")
    THEN DigitsVal(s, i, i + len - 6) * 10000
         + DigitsVal(s, i + len - 4, i + len - 1)
    ELSE DigitsVal(s, i, i + len - 1) * 10000

\* re.findall: leftmost, non-overlapping matches scanning left to right
RECURSIVE FindAll(_, _)
FindAll(s, i) ==
    IF i > Len(s) THEN <<>>
    ELSE LET len == MatchLen(s, i)
         IN IF len = 0 THEN FindAll(s, i + 1)
            ELSE <<FloatOf(s, i, len)>> \o FindAll(s, i + len)

\* times = [None]*4; for i, match in enumerate(matches[:4]): times[i] = float
parse_timer_data(data_line) ==
    LET matches == FindAll(data_line, 1)
    IN [l \in Lanes |-> IF l <= Len(matches) THEN matches[l] ELSE None]

\* any(t is not None for t in times)
AnyTime(times) == \E l \in Lanes : times[l] # None

---------------------------------------------------------------------------
(* Race resolver: find_winner, and process_race_results lines 495-501 *)

\* valid_times = [(i+1, t) for i, t in enumerate(times) if t is not None]
ValidLanes(times) == {l \in Lanes : times[l] # None}

\* the resolver keeping the last of the minimal elements instead of the first
find_winner_LastMin(times) ==
    IF {l \in Lanes : times[l] # None} = {} THEN None
    ELSE CHOOSE l \in {k \in Lanes : times[k] # None} :
            /\ \A k \in Lanes : times[k] # None => times[l] <= times[k]
            /\ \A k \in Lanes : times[k] # None /\ k > l => times[l] < times[k]

\* min(valid_times, key=lambda x: x[1]): the first of the minimal elements
\* in list order (ascending lane); None when valid_times is empty
find_winner(times) ==
    IF ValidLanes(times) = {} THEN None
    ELSE CHOOSE l \in ValidLanes(times) :
            /\ \A k \in ValidLanes(times) : times[l] <= times[k]
            /\ \A k \in ValidLanes(times) : k < l => times[l] < times[k]

\* what the results display shows of a heat: the time of each lane and the
\* winning lane
ResultsOf(times) == [times |-> times, winner_lane |-> find_winner(times)]
NoResults == [times |-> NoTimes, winner_lane |-> None]

---------------------------------------------------------------------------
(* Competitor ledger: add_competitor, update_competitor_stats *)

Names(comps) == {comps[i].name : i \in 1..Len(comps)}

KeyIndex(comps, name) == CHOOSE i \in 1..Len(comps) : comps[i].name = name

\* the entry add_competitor / setup_competitors stores under a new name
NewCompetitor(name) ==
    [name |-> name, heats |-> <<>>, best_time |-> None, total_time |-> 0,
     races_count |-> 0]

\* del self.competitors[name]
DelKey(comps, name) ==
    LET i == KeyIndex(comps, name)
    IN Take(comps, i - 1) \o Drop(comps, i)

\* the update of one lane with the comparison of best_time left out: the
\* first time a competitor records stays its best
ApplyLane_FirstBest(comps, name, heat, lane, time_val) ==
    LET i == KeyIndex(comps, name)
        e == comps[i]
    IN [comps EXCEPT ![i] =
          [name |-> e.name,
           heats |-> Append(e.heats,
                            [heat |-> heat, lane |-> lane, time |-> time_val]),
           races_count |-> e.races_count + 1,
           total_time |-> e.total_time + time_val,
           best_time |-> IF e.best_time = None THEN time_val ELSE e.best_time]]

\* one round of the update loop for a lane that qualifies
ApplyLane(comps, name, heat, lane, time_val) ==
    LET i == KeyIndex(comps, name)
        e == comps[i]
    IN [comps EXCEPT ![i] =
          [name |-> e.name,
           heats |-> Append(e.heats,
                            [heat |-> heat, lane |-> lane, time |-> time_val]),
           races_count |-> e.races_count + 1,
           total_time |-> e.total_time + time_val,
           best_time |-> IF e.best_time = None \/ time_val < e.best_time
                         THEN time_val ELSE e.best_time]]

\* the update loop with the test of the time left out: an assigned lane
\* counts whether or not its slot holds a time
RECURSIVE UpdateFrom_AbsentCounted(_, _, _, _, _)
UpdateFrom_AbsentCounted(comps, assignments, times, heat, lane) ==
    IF lane > NumLanes THEN [competitors |-> comps, raised |-> FALSE]
    ELSE IF lane \in DOMAIN assignments
    THEN IF assignments[lane] \notin Names(comps)
         THEN [competitors |-> comps, raised |-> TRUE]
         ELSE UpdateFrom_AbsentCounted(
                  ApplyLane(comps, assignments[lane], heat, lane, times[lane]),
                  assignments, times, heat, lane + 1)
    ELSE UpdateFrom_AbsentCounted(comps, assignments, times, heat, lane + 1)

\* for lane in range(1, 5): ... from lane `lane` on.  self.competitors[name]
\* raises KeyError for a name that is not a key, which ends the loop with the
\* earlier lanes applied.
RECURSIVE UpdateFrom(_, _, _, _, _)
UpdateFrom(comps, assignments, times, heat, lane) ==
    IF lane > NumLanes THEN [competitors |-> comps, raised |-> FALSE]
    ELSE IF lane \in DOMAIN assignments /\ times[lane] # None
    THEN IF assignments[lane] \notin Names(comps)
         THEN [competitors |-> comps, raised |-> TRUE]
         ELSE UpdateFrom(ApplyLane(comps, assignments[lane], heat, lane,
                                   times[lane]),
                         assignments, times, heat, lane + 1)
    ELSE UpdateFrom(comps, assignments, times, heat, lane + 1)

update_competitor_stats(comps, assignments, times, heat) ==
    UpdateFrom(comps, assignments, times, heat, 1)

---------------------------------------------------------------------------
(* Standings ranker: the sorted() of save_standings, display_standings and *)
(* update_standings_display, and the rows each of them writes              *)

\* 999.0, the key of a competitor whose best_time is None
Sentinel == 9990000

\* key=lambda x: x[1]['best_time'] if x[1]['best_time'] is not None else 999.0
BestKey(e) == IF e.best_time # None THEN e.best_time ELSE Sentinel

\* key=lambda x: x[1]['races_count']
RacesKey(e) == e.races_count

\* the insertion that puts an entry before the entries of the same key: the
\* sort it makes is not stable
RECURSIVE InsertByKey_BeforeEquals(_, _, _)
InsertByKey_BeforeEquals(s, e, k) ==
    IF s = <<>> THEN <<<<k, e>>>>
    ELSE IF s[Len(s)][1] < k THEN Append(s, <<k, e>>)
    ELSE Append(InsertByKey_BeforeEquals(Take(s, Len(s) - 1), e, k), s[Len(s)])

\* e put into the sorted sequence s after every element whose key is not
\* greater: sorted() is stable
RECURSIVE InsertByKey(_, _, _)
InsertByKey(s, e, k) ==
    IF s = <<>> THEN <<<<k, e>>>>
    ELSE IF s[Len(s)][1] <= k THEN Append(s, <<k, e>>)
    ELSE Append(InsertByKey(Take(s, Len(s) - 1), e, k), s[Len(s)])

\* the pairs <<key, entry>> of s, sorted by key, stable
RECURSIVE SortPairs(_)
SortPairs(s) ==
    IF s = <<>> THEN <<>>
    ELSE InsertByKey(SortPairs(Take(s, Len(s) - 1)), s[Len(s)][2],
                     s[Len(s)][1])

SortedByBest(comps) ==
    LET p == SortPairs([i \in 1..Len(comps) |-> <<BestKey(comps[i]), comps[i]>>])
    IN [i \in 1..Len(p) |-> p[i][2]]

SortedByRaces(comps) ==
    LET p == SortPairs([i \in 1..Len(comps) |-> <<RacesKey(comps[i]), comps[i]>>])
    IN [i \in 1..Len(p) |-> p[i][2]]

\* `if stats['best_time']`: None and 0.0 are both false
Truthy(t) == t # None /\ t # 0

\* the rows of a standings file that leaves out who has not raced
StandingsRows_RacedOnly(comps) ==
    LET s == SelectSeq(SortedByBest(comps), LAMBDA e : e.races_count > 0)
    IN [i \in 1..Len(s) |->
          [rank |-> i,
           name |-> s[i].name,
           best |-> IF Truthy(s[i].best_time) THEN s[i].best_time ELSE None,
           avg |-> <<s[i].total_time, s[i].races_count>>,
           races |-> s[i].races_count]]

\* the rows save_standings writes after the header: an empty cell is None,
\* the average total_time / races_count is the pair <<total_time, races_count>>
\* and an empty average is <<>>
StandingsRows(comps) ==
    LET s == SortedByBest(comps)
    IN [i \in 1..Len(s) |->
          [rank |-> i,
           name |-> s[i].name,
           best |-> IF Truthy(s[i].best_time) THEN s[i].best_time ELSE None,
           avg |-> IF s[i].races_count > 0
                   THEN <<s[i].total_time, s[i].races_count>> ELSE <<>>,
           races |-> s[i].races_count]]

\* the rows update_standings_display inserts: "---" is None / <<>>, and medal
\* is 1..3 for the gold, silver and bronze prefix, 0 for none
TreeRows(comps) ==
    LET s == SortedByBest(comps)
    IN [i \in 1..Len(s) |->
          [rank |-> i,
           medal |-> IF i <= 3 /\ Truthy(s[i].best_time) THEN i ELSE 0,
           name |-> s[i].name,
           best |-> IF Truthy(s[i].best_time) THEN s[i].best_time ELSE None,
           avg |-> IF s[i].races_count > 0
                   THEN <<s[i].total_time, s[i].races_count>> ELSE <<>>,
           races |-> s[i].races_count]]

---------------------------------------------------------------------------
(* Persistence writer: the rows of the heat log *)

\* the header row finish_setup (GUI) and __init__ (logger) write
HeaderRow == [kind |-> "header"]

\* the row save_heat_results / log_heat_results appends; `heat` is the
\* number the caller puts in the first cell.  `if winner_lane:` is false for
\* None only (a lane is 1..4).
HeatRow(heat, assignments, times, winner_lane) ==
    [kind |-> "heat",
     heat |-> heat,
     names |-> [l \in Lanes |->
                  IF l \in DOMAIN assignments THEN assignments[l] ELSE ""],
     times |-> times,
     winner |-> IF winner_lane # None /\ winner_lane \in DOMAIN assignments
                THEN assignments[winner_lane] ELSE ""]

HeatRows(file) == SelectSeq(file, LAMBDA r : r.kind = "heat")

---------------------------------------------------------------------------
(* Bounds and inputs *)

\* heats the command-line logger may start
MaxHeats == 2
\* heats the GUI may start
MaxGuiHeats == 1
\* lanes whose combobox the user changes by hand (the others stay '(empty)'
\* unless auto_assign_lanes sets them)
UsedLanes == 2
\* listening threads alive at once
MaxThreads == 2
\* characters the carry-over buffer of a listening thread may hold
MaxBuffer == 2

\* names typed into the competitor entry; "" is the empty entry
CompetitorNames == {"A", "B"}

\* what the timer sends in one read
ChunkExample ==
    <<"1", ".", "2", "3", "4", "5", " ", "1", ".", "1", "1", "1", "1", " ", LF>>
ChunkTelemetry == <<"x", CR, LF>>
ChunkZeroAndLong ==
    <<"0", ".", "0", "0", "0", "0", " ",
      "1", "0", "0", "0", ".", "0", "0", "0", "0", LF>>
ChunkPartial == <<"1", ".">>
ChunkTwoLines == ChunkExample \o ChunkZeroAndLong

Chunks ==
    {ChunkExample, ChunkTelemetry, ChunkZeroAndLong, ChunkPartial, ChunkTwoLines}

---------------------------------------------------------------------------
(* TournamentGUI *)

GuiInit ==
    /\ results_text = NoResults
    /\ competitors = <<>>
    /\ competitor_listbox = <<>>
    /\ heat_number = 1
    /\ current_heat_assignments = <<>>
    /\ lane_combos = [l \in Lanes |-> ""]
    /\ lane_options = {}
    /\ is_connected = FALSE
    /\ is_listening = FALSE
    /\ race_btn = "normal"
    /\ next_to_race_btn = "disabled"
    /\ tabs = [t \in 1..3 |-> "disabled"]
    /\ heats_file = <<>>
    /\ standings_file = <<>>
    /\ after_queue = <<>>
    /\ threads = <<>>
    /\ error_dialog = ""

\* add_competitor, with `name` the stripped text of the entry
add_competitor(name) ==
    /\ IF name = "" \/ name \in Names(competitors)
       THEN UNCHANGED <<competitors, competitor_listbox>>
       ELSE /\ competitors' = Append(competitors, NewCompetitor(name))
            /\ competitor_listbox' = Append(competitor_listbox, name)
    /\ UNCHANGED <<results_text, heat_number, current_heat_assignments, lane_combos,
                   lane_options, is_connected, is_listening, race_btn,
                   next_to_race_btn, tabs, heats_file, standings_file,
                   after_queue, threads>>
    /\ error_dialog' = ""

\* remove_competitor, with idx the selected row (0: nothing selected) and
\* yes the answer to the confirmation
remove_competitor(idx, yes) ==
    /\ IF idx = 0 \/ ~yes
       THEN UNCHANGED <<competitors, competitor_listbox>>
       ELSE /\ competitor_listbox[idx] \in Names(competitors)
            /\ competitors' = DelKey(competitors, competitor_listbox[idx])
            /\ competitor_listbox' =
                 Take(competitor_listbox, idx - 1) \o Drop(competitor_listbox, idx)
    /\ UNCHANGED <<results_text, heat_number, current_heat_assignments, lane_combos,
                   lane_options, is_connected, is_listening, race_btn,
                   next_to_race_btn, tabs, heats_file, standings_file,
                   after_queue, threads>>
    /\ error_dialog' = ""

\* finish_setup with the header added to what the file holds: the file is
\* opened for appending, not for writing
finish_setup_AppendsHeader(yes) ==
    /\ IF competitors = <<>> \/ ~yes
       THEN UNCHANGED <<tabs, heats_file>>
       ELSE /\ tabs' = [tabs EXCEPT ![1] = "normal"]
            /\ heats_file' = Append(heats_file, HeaderRow)
    /\ UNCHANGED <<results_text, competitors, competitor_listbox, heat_number,
                   current_heat_assignments, lane_combos, lane_options,
                   is_connected, is_listening, race_btn, next_to_race_btn,
                   standings_file, after_queue, threads>>
    /\ error_dialog' = ""

\* finish_setup, with yes the answer to the confirmation.  The write of the
\* header is taken to succeed.
finish_setup(yes) ==
    /\ IF competitors = <<>> \/ ~yes
       THEN UNCHANGED <<tabs, heats_file>>
       ELSE /\ tabs' = [tabs EXCEPT ![1] = "normal"]
            /\ heats_file' = <<HeaderRow>>
    /\ UNCHANGED <<results_text, competitors, competitor_listbox, heat_number,
                   current_heat_assignments, lane_combos, lane_options,
                   is_connected, is_listening, race_btn, next_to_race_btn,
                   standings_file, after_queue, threads>>
    /\ error_dialog' = ""

\* connect_timer: the button of the connection tab.  opened says whether
\* serial.Serial opens the port when not connected; when it does not (or no
\* port is selected) the handler shows a box of its own and changes nothing.
connect_timer(opened) ==
    /\ tabs[1] = "normal"
    /\ IF is_connected
       THEN /\ is_connected' = FALSE
            /\ next_to_race_btn' = "disabled"
       ELSE IF opened
       THEN /\ is_connected' = TRUE
            /\ next_to_race_btn' = "normal"
       ELSE UNCHANGED <<is_connected, next_to_race_btn>>
    /\ error_dialog' = ""
    /\ UNCHANGED <<results_text, competitors, competitor_listbox, heat_number,
                   current_heat_assignments, lane_combos, lane_options,
                   is_listening, race_btn, tabs, heats_file, standings_file,
                   after_queue, threads>>

\* update_lane_options: the values and the selection of every combobox
LaneOptionsOf(comps) == Names(comps)
ClearedCombos == [l \in Lanes |-> "(empty)"]

\* go_to_racing: the button of the connection tab
go_to_racing ==
    /\ tabs[1] = "normal"
    /\ next_to_race_btn = "normal"
    /\ tabs' = [tabs EXCEPT ![2] = "normal", ![3] = "normal"]
    /\ lane_options' = LaneOptionsOf(competitors)
    /\ lane_combos' = ClearedCombos
    /\ UNCHANGED <<results_text, competitors, competitor_listbox, heat_number,
                   current_heat_assignments, is_connected, is_listening,
                   race_btn, next_to_race_btn, heats_file, standings_file,
                   after_queue, threads>>
    /\ error_dialog' = ""

\* auto_assign_lanes.  The user is taken to press the button only while a
\* heat can still be started: at any other time what it sets is cleared, or
\* never read, before the next start.
auto_assign_lanes ==
    /\ tabs[2] = "normal"
    /\ race_btn = "normal" /\ heat_number <= MaxGuiHeats
    /\ LET sorted_competitors == SortedByRaces(competitors)
       IN lane_combos' =
            [l \in Lanes |-> IF l <= Len(sorted_competitors)
                             THEN sorted_competitors[l].name
                             ELSE lane_combos[l]]
    /\ UNCHANGED <<results_text, competitors, competitor_listbox, heat_number,
                   current_heat_assignments, lane_options, is_connected,
                   is_listening, race_btn, next_to_race_btn, tabs, heats_file,
                   standings_file, after_queue, threads>>
    /\ error_dialog' = ""

\* the assignments start_listening reads from the comboboxes
AssignmentsOf(combos) ==
    [l \in {k \in Lanes : combos[k] # "" /\ combos[k] # "(empty)"} |-> combos[l]]

NewThread == [pc |-> "check", buffer |-> <<>>]

\* what the user can have made of the comboboxes by hand: on the lanes
\* 1..UsedLanes any of the values offered, the other lanes as they are
Selections ==
    {sel \in [Lanes -> lane_options \cup {"(empty)"} \cup
                       {lane_combos[l] : l \in Lanes}] :
        \A l \in Lanes :
           IF l <= UsedLanes
           THEN sel[l] \in lane_options \cup {"(empty)", lane_combos[l]}
           ELSE sel[l] = lane_combos[l]}

\* start_listening with the button left enabled
start_listening_ButtonLeftOn(selection, yes) ==
    /\ tabs[2] = "normal"
    /\ race_btn = "normal"
    /\ heat_number <= MaxGuiHeats
    /\ Len(threads) < MaxThreads
    /\ lane_combos' = selection
    /\ current_heat_assignments' = AssignmentsOf(selection)
    /\ IF DOMAIN AssignmentsOf(selection) = {} \/ ~yes
       THEN UNCHANGED <<is_listening, threads>>
       ELSE /\ is_listening' = TRUE
            /\ threads' = Append(threads, NewThread)
    /\ UNCHANGED <<results_text, competitors, competitor_listbox, heat_number,
                   lane_options, is_connected, next_to_race_btn, tabs,
                   heats_file, standings_file, after_queue, race_btn>>
    /\ error_dialog' = ""

\* start_listening: the command of race_btn, which a disabled button does not
\* run.  selection is what the user has set the comboboxes to before the
\* click, yes the answer to "Ready to race?"
start_listening(selection, yes) ==
    /\ tabs[2] = "normal"
    /\ race_btn = "normal"
    /\ heat_number <= MaxGuiHeats
    /\ Len(threads) < MaxThreads
    /\ lane_combos' = selection
    /\ current_heat_assignments' = AssignmentsOf(selection)
    /\ IF DOMAIN AssignmentsOf(selection) = {} \/ ~yes
       THEN UNCHANGED <<race_btn, is_listening, threads>>
       ELSE /\ race_btn' = "disabled"
            /\ is_listening' = TRUE
            /\ threads' = Append(threads, NewThread)
    /\ UNCHANGED <<results_text, competitors, competitor_listbox, heat_number,
                   lane_options, is_connected, next_to_race_btn, tabs,
                   heats_file, standings_file, after_queue>>
    /\ error_dialog' = ""

---------------------------------------------------------------------------
(* The listening thread: listen_for_race *)

Callback(cb, times) == [cb |-> cb, times |-> times]

RemoveAt(s, i) == Take(s, i - 1) \o Drop(s, i)

\* the times of the first line that holds a time, NoTimes when none does
RECURSIVE FirstResult(_)
FirstResult(lines) ==
    IF lines = <<>> THEN NoTimes
    ELSE IF AnyTime(parse_timer_data(Head(lines)))
    THEN parse_timer_data(Head(lines))
    ELSE FirstResult(Tail(lines))

\* the loop test with a heat counted when the loop ends: the thread that
\* finds the condition false moves on to the next heat number
thread_check_CountsHeat(i) ==
    /\ threads[i].pc = "check"
    /\ IF is_listening /\ is_connected
       THEN /\ threads' = [threads EXCEPT ![i].pc = "poll"]
            /\ UNCHANGED heat_number
       ELSE /\ threads' = RemoveAt(threads, i)
            /\ heat_number' = heat_number + 1
    /\ UNCHANGED <<results_text, competitors, competitor_listbox,
                   current_heat_assignments, lane_combos, lane_options,
                   is_connected, is_listening, race_btn, next_to_race_btn,
                   tabs, heats_file, standings_file, after_queue, error_dialog>>

\* while self.is_listening and self.is_connected: a false condition ends the
\* thread with nothing else done
thread_check(i) ==
    /\ threads[i].pc = "check"
    /\ IF is_listening /\ is_connected
       THEN threads' = [threads EXCEPT ![i].pc = "poll"]
       ELSE threads' = RemoveAt(threads, i)
    /\ UNCHANGED <<results_text, competitors, competitor_listbox, heat_number,
                   current_heat_assignments, lane_combos, lane_options,
                   is_connected, is_listening, race_btn, next_to_race_btn,
                   tabs, heats_file, standings_file, after_queue, error_dialog>>

\* the exception handler without the clearing of is_listening
thread_except_StillListening(i) ==
    /\ after_queue' = after_queue \o <<Callback("showerror", NoTimes),
                                         Callback("enable_race_btn", NoTimes)>>
    /\ UNCHANGED is_listening
    /\ threads' = RemoveAt(threads, i)

\* except Exception: the error box and the re-enabling of the button are
\* scheduled on the Tk thread, is_listening is cleared and the thread ends
thread_except(i) ==
    /\ after_queue' = after_queue \o <<Callback("showerror", NoTimes),
                                         Callback("enable_race_btn", NoTimes)>>
    /\ is_listening' = FALSE
    /\ threads' = RemoveAt(threads, i)

\* the loop body without the test for a time: the first non-empty line ends
\* the heat, whatever the parser has found in it
thread_poll_AnyLineEnds(i, chunk, fault) ==
    /\ threads[i].pc = "poll"
    /\ IF ~is_connected \/ fault
       THEN thread_except(i)
       ELSE LET split == SplitLines(threads[i].buffer \o Decode(chunk))
            IN /\ Len(threads[i].buffer \o Decode(chunk)) <= MaxBuffer
                  \/ split[2] = <<>>
               /\ IF split[1] # <<>>
                  THEN /\ after_queue' = Append(after_queue,
                                Callback("process_race_results",
                                         parse_timer_data(split[1][1])))
                       /\ threads' = [threads EXCEPT
                                        ![i] = [pc |-> "stop", buffer |-> <<>>]]
                  ELSE /\ threads' = [threads EXCEPT
                                        ![i] = [pc |-> "check", buffer |-> split[2]]]
                       /\ UNCHANGED after_queue
               /\ UNCHANGED is_listening
    /\ UNCHANGED <<results_text, competitors, competitor_listbox, heat_number,
                   current_heat_assignments, lane_combos, lane_options,
                   is_connected, race_btn, next_to_race_btn, tabs, heats_file,
                   standings_file, error_dialog>>

\* the loop body without the return after the first result: every line of
\* the read that holds a time is handed to the Tk loop
thread_poll_EveryLine(i, chunk, fault) ==
    /\ threads[i].pc = "poll"
    /\ IF ~is_connected \/ fault
       THEN thread_except(i)
       ELSE LET split == SplitLines(threads[i].buffer \o Decode(chunk))
                timed == SelectSeq(split[1],
                                   LAMBDA ln : AnyTime(parse_timer_data(ln)))
            IN /\ Len(threads[i].buffer \o Decode(chunk)) <= MaxBuffer
                  \/ split[2] = <<>>
               /\ IF timed # <<>>
                  THEN /\ after_queue' = after_queue \o
                            [k \in 1..Len(timed) |->
                               Callback("process_race_results",
                                        parse_timer_data(timed[k]))]
                       /\ threads' = [threads EXCEPT
                                        ![i] = [pc |-> "stop", buffer |-> <<>>]]
                  ELSE /\ threads' = [threads EXCEPT
                                        ![i] = [pc |-> "check", buffer |-> split[2]]]
                       /\ UNCHANGED after_queue
               /\ UNCHANGED is_listening
    /\ UNCHANGED <<results_text, competitors, competitor_listbox, heat_number,
                   current_heat_assignments, lane_combos, lane_options,
                   is_connected, race_btn, next_to_race_btn, tabs, heats_file,
                   standings_file, error_dialog>>

\* one round of the loop body.  The port raises when it is closed (the user
\* disconnected) or when the device fails (fault); otherwise it holds chunk
\* (<<>>: in_waiting is 0).  The first line with a time schedules
\* process_race_results and leaves the loop; the buffer is local and dies
\* with the return.
thread_poll(i, chunk, fault) ==
    /\ threads[i].pc = "poll"
    /\ IF ~is_connected \/ fault
       THEN thread_except(i)
       ELSE LET split == SplitLines(threads[i].buffer \o Decode(chunk))
                times == FirstResult(split[1])
            IN /\ Len(threads[i].buffer \o Decode(chunk)) <= MaxBuffer
                  \/ split[2] = <<>>
               /\ IF AnyTime(times)
                  THEN /\ after_queue' = Append(after_queue,
                                Callback("process_race_results", times))
                       /\ threads' = [threads EXCEPT
                                        ![i] = [pc |-> "stop", buffer |-> <<>>]]
                  ELSE /\ threads' = [threads EXCEPT
                                        ![i] = [pc |-> "check", buffer |-> split[2]]]
                       /\ UNCHANGED after_queue
               /\ UNCHANGED is_listening
    /\ UNCHANGED <<results_text, competitors, competitor_listbox, heat_number,
                   current_heat_assignments, lane_combos, lane_options,
                   is_connected, race_btn, next_to_race_btn, tabs, heats_file,
                   standings_file, error_dialog>>

\* self.is_listening = False; return
thread_stop(i) ==
    /\ threads[i].pc = "stop"
    /\ is_listening' = FALSE
    /\ threads' = RemoveAt(threads, i)
    /\ UNCHANGED <<results_text, competitors, competitor_listbox, heat_number,
                   current_heat_assignments, lane_combos, lane_options,
                   is_connected, race_btn, next_to_race_btn, tabs, heats_file,
                   standings_file, after_queue, error_dialog>>

---------------------------------------------------------------------------
(* Callbacks run by the Tk event loop *)

\* process_race_results with a failed save of the heat row ending the
\* callback: the standings are not saved, the heat number stays and the
\* button stays disabled
process_race_results_StopsOnSaveError(times, heat_saved, standings_saved) ==
    LET winner_lane == find_winner(times)
        upd == update_competitor_stats(competitors, current_heat_assignments,
                                       times, heat_number)
    IN /\ results_text' = ResultsOf(times)
       /\ competitors' = upd.competitors
       /\ IF upd.raised
          THEN /\ error_dialog' = ""
               /\ UNCHANGED <<heats_file, standings_file,
                              heat_number, race_btn, lane_options,
                              lane_combos>>
          ELSE IF ~heat_saved
          THEN /\ error_dialog' = "Save Error"
               /\ UNCHANGED <<heats_file, standings_file,
                              heat_number, race_btn, lane_options,
                              lane_combos>>
          ELSE /\ heats_file' =
                    Append(heats_file,
                           HeatRow(heat_number - 1, current_heat_assignments,
                                   times, winner_lane))
               /\ error_dialog' = ""
               /\ standings_file' = IF standings_saved
                                    THEN StandingsRows(upd.competitors)
                                    ELSE standings_file
               /\ heat_number' = heat_number + 1
               /\ race_btn' = "normal"
               /\ lane_options' = LaneOptionsOf(upd.competitors)
               /\ lane_combos' = ClearedCombos

\* process_race_results with the ledger records numbered like the GUI's row
\* of the heat log, one below the heat number
process_race_results_HeatOffByOne(times, heat_saved, standings_saved) ==
    LET winner_lane == find_winner(times)
        upd == update_competitor_stats(competitors, current_heat_assignments,
                                       times, heat_number - 1)
    IN /\ results_text' = ResultsOf(times)
       /\ competitors' = upd.competitors
       /\ IF upd.raised
          THEN /\ error_dialog' = ""
               /\ UNCHANGED <<heats_file, standings_file,
                              heat_number, race_btn, lane_options,
                              lane_combos>>
          ELSE /\ IF heat_saved
                  THEN /\ heats_file' =
                            Append(heats_file,
                                   HeatRow(heat_number - 1,
                                           current_heat_assignments, times,
                                           winner_lane))
                       /\ error_dialog' = ""
                  ELSE /\ error_dialog' = "Save Error"
                       /\ UNCHANGED heats_file
               /\ standings_file' = IF standings_saved
                                    THEN StandingsRows(upd.competitors)
                                    ELSE standings_file
               /\ heat_number' = heat_number + 1
               /\ race_btn' = "normal"
               /\ lane_options' = LaneOptionsOf(upd.competitors)
               /\ lane_combos' = ClearedCombos

\* process_race_results(times); heat_saved and standings_saved say whether
\* the two file writes succeed.  A KeyError of the update loop leaves the
\* callback at once: Tk prints the traceback and the rest is not run.
process_race_results(times, heat_saved, standings_saved) ==
    LET winner_lane == find_winner(times)
        upd == update_competitor_stats(competitors, current_heat_assignments,
                                       times, heat_number)
    IN /\ results_text' = ResultsOf(times)
       /\ competitors' = upd.competitors
       /\ IF upd.raised
          THEN /\ error_dialog' = ""
               /\ UNCHANGED <<heats_file, standings_file,
                              heat_number, race_btn, lane_options,
                              lane_combos>>
          ELSE \* save_heat_results
               /\ IF heat_saved
                  THEN /\ heats_file' =
                            Append(heats_file,
                                   HeatRow(heat_number - 1,
                                           current_heat_assignments, times,
                                           winner_lane))
                       /\ error_dialog' = ""
                  ELSE /\ error_dialog' = "Save Error"
                       /\ UNCHANGED heats_file
               \* save_standings
               /\ standings_file' = IF standings_saved
                                    THEN StandingsRows(upd.competitors)
                                    ELSE standings_file
               /\ heat_number' = heat_number + 1
               /\ race_btn' = "normal"
               \* update_lane_options
               /\ lane_options' = LaneOptionsOf(upd.competitors)
               /\ lane_combos' = ClearedCombos

\* the Tk event loop runs the oldest scheduled callback
tk_dispatch(heat_saved, standings_saved) ==
    /\ after_queue # <<>>
    /\ after_queue' = Tail(after_queue)
    /\ LET cb == Head(after_queue)
       IN CASE cb.cb = "process_race_results" ->
                  process_race_results(cb.times, heat_saved, standings_saved)
            [] cb.cb = "showerror" ->
                  /\ error_dialog' = "Listening Error"
                  /\ UNCHANGED <<results_text, competitors, heats_file,
                                 standings_file, heat_number, race_btn,
                                 lane_options, lane_combos>>
            [] cb.cb = "enable_race_btn" ->
                  /\ race_btn' = "normal"
                  /\ error_dialog' = ""
                  /\ UNCHANGED <<results_text, competitors, heats_file,
                                 standings_file, heat_number, lane_options,
                                 lane_combos>>
    /\ UNCHANGED <<competitor_listbox, current_heat_assignments, is_connected,
                   is_listening, next_to_race_btn, tabs, threads>>

---------------------------------------------------------------------------
(* The GUI as a whole *)

\* a step of the GUI leaves the rest alone
GuiRuns ==
    pc = "mainloop" /\ UNCHANGED <<loggerVars, framerVars, parserVars, resolverVars, rankerVars>>

GuiNext ==
    \/ \E name \in CompetitorNames \cup {""} : add_competitor(name) /\ GuiRuns
    \/ \E idx \in 0..Len(competitor_listbox), yes \in BOOLEAN :
          remove_competitor(idx, yes) /\ GuiRuns
    \/ \E yes \in BOOLEAN : finish_setup(yes) /\ GuiRuns
    \/ \E opened \in BOOLEAN : connect_timer(opened) /\ GuiRuns
    \/ go_to_racing /\ GuiRuns
    \/ auto_assign_lanes /\ GuiRuns
    \/ \E selection \in Selections : start_listening(selection, TRUE) /\ GuiRuns
    \/ start_listening(lane_combos, FALSE) /\ GuiRuns
    \/ \E i \in 1..Len(threads) : thread_check(i) /\ GuiRuns
    \/ \E i \in 1..Len(threads), chunk \in Chunks \cup {<<>>}, fault \in BOOLEAN :
          thread_poll(i, chunk, fault) /\ GuiRuns
    \/ \E i \in 1..Len(threads) : thread_stop(i) /\ GuiRuns
    \/ \E heat_saved \in BOOLEAN, standings_saved \in BOOLEAN :
          tk_dispatch(heat_saved, standings_saved) /\ GuiRuns

---------------------------------------------------------------------------
(* TournamentLogger: main() and run_tournament *)

LoggerInit ==
    /\ results_text = NoResults
    /\ competitors = <<>>
    /\ heat_number = 1
    /\ current_heat_assignments = <<>>
    /\ heats_file = <<HeaderRow>>
    /\ standings_file = <<>>
    /\ pc = "setup_competitors"
    /\ buffer = <<>>
    /\ is_running = FALSE
    /\ printed = {}

\* the widgets and threads of the GUI, which the logger does not have
NoGui ==
    /\ competitor_listbox = <<>>
    /\ lane_combos = [l \in Lanes |-> ""]
    /\ lane_options = {}
    /\ is_connected = FALSE
    /\ is_listening = FALSE
    /\ race_btn = "normal"
    /\ next_to_race_btn = "disabled"
    /\ tabs = [t \in 1..3 |-> "disabled"]
    /\ after_queue = <<>>
    /\ threads = <<>>
    /\ error_dialog = ""

\* self.competitors[name] = {...}: a new key goes last, a key already there
\* keeps its place and gets the new value
SetKey(comps, e) ==
    IF e.name \in Names(comps)
    THEN [i \in 1..Len(comps) |-> IF comps[i].name = e.name THEN e ELSE comps[i]]
    ELSE Append(comps, e)

\* setup_competitors: one prompt for a name; more says whether names remain
\* to be entered after this one.  An empty name is asked again.
setup_competitors(name, more) ==
    /\ pc = "setup_competitors"
    /\ IF name = ""
       THEN UNCHANGED <<competitors, pc>>
       ELSE /\ competitors' = SetKey(competitors, NewCompetitor(name))
            /\ pc' = IF more THEN "setup_competitors" ELSE "connect"
    /\ printed' = {}
    /\ UNCHANGED <<results_text, heat_number, current_heat_assignments, heats_file,
                   standings_file, buffer, is_running, guiOnlyVars>>

\* connect, then the start of run_tournament; opened says whether a port was
\* chosen and serial.Serial opened it
connect(opened) ==
    /\ pc = "connect"
    /\ IF opened
       THEN /\ is_running' = TRUE
            /\ buffer' = <<>>
            /\ pc' = "assign_heat"
       ELSE /\ pc' = "exit"
            /\ UNCHANGED <<is_running, buffer>>
    /\ printed' = {}
    /\ UNCHANGED <<results_text, competitors, heat_number, current_heat_assignments,
                   heats_file, standings_file, guiOnlyVars>>

\* what the operator can answer to the four lane prompts: a competitor on any
\* of the lanes 1..UsedLanes, Enter on the others
LaneAnswers ==
    UNION {[S -> Names(competitors)] : S \in SUBSET (1..UsedLanes)}

\* assign_heat with a declined heat counted: answering n moves on to the
\* next heat number
assign_heat_SkipCounts(assignments, confirm) ==
    /\ pc = "assign_heat"
    /\ is_running
    /\ heat_number <= MaxHeats
    /\ IF competitors = <<>>
       THEN UNCHANGED <<current_heat_assignments, pc, heat_number>>
       ELSE /\ current_heat_assignments' = assignments
            /\ pc' = IF confirm THEN "listen" ELSE "assign_heat"
            /\ heat_number' = IF confirm THEN heat_number ELSE heat_number + 1
    /\ printed' = {}
    /\ UNCHANGED <<results_text, competitors, heats_file, standings_file,
                   buffer, is_running, guiOnlyVars>>

\* assign_heat, with the answers to the lane prompts and to "Ready to race?"
assign_heat(assignments, confirm) ==
    /\ pc = "assign_heat"
    /\ is_running
    /\ heat_number <= MaxHeats
    /\ IF competitors = <<>>
       THEN UNCHANGED <<current_heat_assignments, pc>>
       ELSE /\ current_heat_assignments' = assignments
            /\ pc' = IF confirm THEN "listen" ELSE "assign_heat"
    /\ printed' = {}
    /\ UNCHANGED <<results_text, competitors, heat_number, heats_file, standings_file,
                   buffer, is_running, guiOnlyVars>>

\* the inner loop over the buffer: lines are taken off one at a time until
\* one holds a time; the break leaves the rest in the buffer
RECURSIVE TakeResult(_)
TakeResult(buf) ==
    IF ~(Contains(buf, LF) \/ Contains(buf, CR))
    THEN [times |-> NoTimes, buffer |-> buf]
    ELSE LET k == SplitAt(buf)
             line == Strip(Take(buf, k - 1))
             times == parse_timer_data(line)
         IN IF line # <<>> /\ AnyTime(times)
            THEN [times |-> times, buffer |-> Drop(buf, k)]
            ELSE TakeResult(Drop(buf, k))

\* one round of the listening loop of run_tournament.  The port raises on a
\* device failure (fault); otherwise it holds chunk (<<>>: in_waiting is 0,
\* and the buffer is not looked at).
\* The first line with a time is the result of the heat: ledger, heat log,
\* standings, then the next heat number.
run_tournament(chunk, fault, heat_saved, standings_saved) ==
    /\ pc = "listen"
    /\ is_running
    /\ IF fault
       THEN /\ printed' = {"Error"}
            /\ is_running' = FALSE
            /\ pc' = "exit"
            /\ UNCHANGED <<results_text, competitors, heat_number, heats_file,
                           standings_file, buffer>>
       ELSE IF chunk = <<>>
       THEN /\ printed' = {}
            /\ UNCHANGED <<results_text, competitors, heat_number, heats_file,
                           standings_file, buffer, is_running, pc>>
       ELSE LET taken == TakeResult(buffer \o Decode(chunk))
                winner_lane == find_winner(taken.times)
                upd == update_competitor_stats(competitors,
                           current_heat_assignments, taken.times, heat_number)
            IN /\ Len(buffer \o Decode(chunk)) <= MaxBuffer
                  \/ Contains(chunk, LF) \/ Contains(chunk, CR)
               /\ buffer' = taken.buffer
               \* display_heat_results
               /\ results_text' = IF AnyTime(taken.times)
                                  THEN ResultsOf(taken.times) ELSE results_text
               /\ IF ~AnyTime(taken.times)
                  THEN /\ printed' = {}
                       /\ UNCHANGED <<competitors, heat_number, heats_file,
                                      standings_file, is_running, pc>>
                  ELSE IF upd.raised
                  THEN /\ competitors' = upd.competitors
                       /\ printed' = {"Error"}
                       /\ is_running' = FALSE
                       /\ pc' = "exit"
                       /\ UNCHANGED <<heat_number, heats_file, standings_file>>
                  ELSE /\ competitors' = upd.competitors
                       \* log_heat_results
                       /\ heats_file' =
                            IF heat_saved
                            THEN Append(heats_file,
                                        HeatRow(heat_number,
                                                current_heat_assignments,
                                                taken.times, winner_lane))
                            ELSE heats_file
                       \* save_standings
                       /\ standings_file' = IF standings_saved
                                            THEN StandingsRows(upd.competitors)
                                            ELSE standings_file
                       /\ printed' =
                            (IF heat_saved THEN {}
                             ELSE {"Error saving heat results"}) \cup
                            (IF standings_saved THEN {}
                             ELSE {"Error saving standings"})
                       /\ heat_number' = heat_number + 1
                       /\ pc' = "assign_heat"
                       /\ UNCHANGED is_running
    /\ UNCHANGED <<current_heat_assignments, guiOnlyVars>>

\* except KeyboardInterrupt: Ctrl+C at a prompt of assign_heat or in the
\* listening loop ends the tournament with a last save of the standings
KeyboardInterrupt(standings_saved) ==
    /\ pc \in {"assign_heat", "listen"}
    /\ is_running' = FALSE
    /\ standings_file' = IF standings_saved THEN StandingsRows(competitors)
                         ELSE standings_file
    /\ printed' = IF standings_saved THEN {} ELSE {"Error saving standings"}
    /\ pc' = "exit"
    /\ UNCHANGED <<results_text, competitors, heat_number, current_heat_assignments,
                   heats_file, buffer, guiOnlyVars>>

\* a step of the logger leaves the rest alone
LoggerRuns == UNCHANGED <<framerVars, parserVars, resolverVars, rankerVars>>

LoggerNext ==
    \/ \E name \in CompetitorNames \cup {""}, more \in BOOLEAN :
          setup_competitors(name, more) /\ LoggerRuns
    \/ \E opened \in BOOLEAN : connect(opened) /\ LoggerRuns
    \/ \E assignments \in LaneAnswers, confirm \in BOOLEAN :
          assign_heat(assignments, confirm) /\ LoggerRuns
    \/ \E chunk \in Chunks \cup {<<>>}, fault \in BOOLEAN,
          heat_saved \in BOOLEAN, standings_saved \in BOOLEAN :
          run_tournament(chunk, fault, heat_saved, standings_saved) /\ LoggerRuns
    \/ \E standings_saved \in BOOLEAN :
          KeyboardInterrupt(standings_saved) /\ LoggerRuns

---------------------------------------------------------------------------
(* The program: one of the two front ends *)

GuiIdle == pc = "mainloop" /\ buffer = <<>> /\ is_running = FALSE /\ printed = {}

FramerIdle ==
    /\ fBytes = <<>> /\ fPos = 0 /\ fBuffer = <<>> /\ fLines = <<>> /\ fCuts = <<>>

ParserIdle == pLine = <<>> /\ pTimes = <<>>

ResolverIdle == rTimes = NoTimes /\ rWinner = <<>>

RankerIdle == standings_tree = <<>>

Init ==
    /\ \/ GuiInit /\ GuiIdle
       \/ LoggerInit /\ NoGui
    /\ FramerIdle /\ ParserIdle /\ ResolverIdle /\ RankerIdle

Next == GuiNext \/ LoggerNext

Spec == Init /\ [][Next]_vars

---------------------------------------------------------------------------
(* The line framer on its own: a byte sequence read in chunks *)

\* bytes the timer may send and the longest sequence of them
MaxBytes == 4
ByteAlphabet == {"1", " ", LF, CR, LEAD, CONT}

ByteSeqs == UNION {[1..n -> ByteAlphabet] : n \in 0..MaxBytes}

FramerInit ==
    /\ GuiInit /\ GuiIdle /\ ParserIdle /\ ResolverIdle /\ RankerIdle
    /\ fBytes \in ByteSeqs
    /\ fPos = 0
    /\ fBuffer = <<>>
    /\ fLines = <<>>
    /\ fCuts = <<>>

\* one round of the listening loop: read(in_waiting) returns the next n
\* bytes, they are decoded and added to the buffer, and the buffer is split
read_chunk(n) ==
    /\ fPos + n <= Len(fBytes)
    /\ LET chunk == SubSeq(fBytes, fPos + 1, fPos + n)
           split == SplitLines(fBuffer \o Decode(chunk))
       IN /\ fLines' = fLines \o split[1]
          /\ fBuffer' = split[2]
    /\ fPos' = fPos + n
    /\ fCuts' = Append(fCuts, n)
    /\ UNCHANGED <<fBytes, guiVars, loggerVars, parserVars, resolverVars, rankerVars>>

FramerNext == \E n \in 1..MaxBytes : read_chunk(n)

FramerSpec == FramerInit /\ [][FramerNext]_vars

---------------------------------------------------------------------------
(* The parser on its own: one line, parsed once *)

\* numeric tokens of a line and the most of them in one line
MaxTokens == 5
Tokens ==
    { <<"1", ".", "2", "3", "4", "5">>,
      <<"0", ".", "0", "0", "0", "0">>,
      <<"1", "0", "0", "0", ".", "0", "0", "0", "0">>,
      <<"1", "2", "3", "4", "5">>,
      <<"1", ".", "2", "3", "4", "5", "6">>,
      <<"1", ".", "2", "3", "4">> }

\* the tokens with one space between them
RECURSIVE JoinTokens(_)
JoinTokens(toks) ==
    IF toks = <<>> THEN <<>>
    ELSE IF Len(toks) = 1 THEN toks[1]
    ELSE toks[1] \o <<" ">> \o JoinTokens(Tail(toks))

TimerLines == {JoinTokens(toks) : toks \in UNION {[1..n -> Tokens] : n \in 0..MaxTokens}}

ParseInit ==
    /\ GuiInit /\ GuiIdle /\ FramerIdle /\ ResolverIdle /\ RankerIdle
    /\ pLine \in TimerLines
    /\ pTimes = <<>>

\* times = self.parse_timer_data(line)
parse_line ==
    /\ pTimes = <<>>
    /\ pTimes' = parse_timer_data(pLine)
    /\ UNCHANGED <<pLine, guiVars, loggerVars, framerVars, resolverVars, rankerVars>>

ParseNext == parse_line

ParseSpec == ParseInit /\ [][ParseNext]_vars

---------------------------------------------------------------------------
(* The resolver on its own: one time array, resolved once *)

\* the times a slot may hold, in ten-thousandths, and the largest of them
MaxTime == 2
TimeArrays == [Lanes -> (0..MaxTime) \cup {None}]

ResolverInit ==
    /\ GuiInit /\ GuiIdle /\ FramerIdle /\ ParserIdle /\ RankerIdle
    /\ rTimes \in TimeArrays
    /\ rWinner = <<>>

\* winner_lane, winner_time = self.find_winner(times)
resolve ==
    /\ rWinner = <<>>
    /\ LET winner_lane == find_winner(rTimes)
       IN rWinner' = <<winner_lane,
                       IF winner_lane = None THEN None ELSE rTimes[winner_lane]>>
    /\ UNCHANGED <<rTimes, guiVars, loggerVars, framerVars, parserVars,
                   rankerVars>>

ResolverNext == resolve

ResolverSpec == ResolverInit /\ [][ResolverNext]_vars

---------------------------------------------------------------------------
(* The ledger update of one heat, for every ledger, lane assignment and     *)
(* time array of a small universe: the GUI with the result of the heat      *)
(* waiting in the queue of the Tk loop, and the Tk loop processing it       *)

\* the entry of a competitor that has raced in heat 1, on lane 1
RacedBefore(name) ==
    ApplyLane(<<NewCompetitor(name)>>, name, 1, 1, MaxTime)[1]

\* ledgers of heat 2: A and B, or A alone (B removed after the assignment),
\* each with or without a record of heat 1
Ledgers ==
    LET EntriesOf(name) == {NewCompetitor(name), RacedBefore(name)}
    IN {<<a, b>> : a \in EntriesOf("A"), b \in EntriesOf("B")} \cup
       {<<a>> : a \in EntriesOf("A")}

\* what the thread hands over: at least one slot holds a time
LedgerTimes == {t \in [Lanes -> {1, None}] : AnyTime(t)}

\* what start_listening accepts: at least one lane assigned
LedgerAssignments ==
    UNION {[S -> CompetitorNames] : S \in (SUBSET Lanes) \ {{}}}

LedgerInit ==
    /\ GuiIdle /\ FramerIdle /\ ParserIdle /\ ResolverIdle /\ RankerIdle
    /\ competitors \in Ledgers
    /\ competitor_listbox = [i \in 1..Len(competitors) |-> competitors[i].name]
    /\ current_heat_assignments \in LedgerAssignments
    /\ lane_combos = [l \in Lanes |->
                        IF l \in DOMAIN current_heat_assignments
                        THEN current_heat_assignments[l] ELSE "(empty)"]
    /\ lane_options = CompetitorNames
    /\ \E times \in LedgerTimes :
          after_queue = <<Callback("process_race_results", times)>>
    /\ results_text = NoResults
    /\ heat_number = 2
    /\ is_connected = TRUE
    /\ is_listening = FALSE
    /\ race_btn = "disabled"
    /\ next_to_race_btn = "normal"
    /\ tabs = [t \in 1..3 |-> "normal"]
    /\ heats_file = <<HeaderRow>>
    /\ standings_file = <<>>
    /\ threads = <<>>
    /\ error_dialog = ""

LedgerNext ==
    \E heat_saved \in BOOLEAN, standings_saved \in BOOLEAN :
       tk_dispatch(heat_saved, standings_saved) /\ GuiRuns

LedgerSpec == LedgerInit /\ [][LedgerNext]_vars

---------------------------------------------------------------------------

(* One listening session and what the timer sends into it: the bytes that   *)
(* wait in the port are fBytes, read whole by the first read (fPos), after  *)
(* which the port stays empty.  The session is of heat 2, under either      *)
(* front end, with every ledger and assignment of a small universe.         *)

\* a line whose number has two fractional digits, and a line that is empty
ChunkShortFraction == <<"1", ".", "2", "3", LF>>
ChunkBlank == <<CR, LF>>

ListenChunks == Chunks \cup {ChunkShortFraction, ChunkBlank}

\* what an earlier read may have left in the buffer
ListenBuffers == {<<>>, ChunkPartial}

\* assignments on the first three lanes
ListenAssignments == {a \in LedgerAssignments : DOMAIN a \subseteq 1..3}

ListenInit ==
    /\ ParserIdle /\ ResolverIdle /\ RankerIdle
    /\ fBytes \in ListenChunks
    /\ fPos = 0 /\ fBuffer = <<>> /\ fLines = <<>> /\ fCuts = <<>>
    /\ competitors \in Ledgers
    /\ current_heat_assignments \in ListenAssignments
    /\ results_text = NoResults
    /\ heat_number = 2
    /\ heats_file = <<HeaderRow>>
    /\ standings_file = <<>>
    /\ error_dialog = ""
    /\ after_queue = <<>>
    /\ \/ \* the GUI after start_listening, its thread about to read
          /\ GuiIdle
          /\ competitor_listbox =
                [i \in 1..Len(competitors) |-> competitors[i].name]
          /\ lane_combos = [l \in Lanes |->
                              IF l \in DOMAIN current_heat_assignments
                              THEN current_heat_assignments[l] ELSE "(empty)"]
          /\ lane_options = CompetitorNames
          /\ is_connected = TRUE
          /\ is_listening = TRUE
          /\ race_btn = "disabled"
          /\ next_to_race_btn = "normal"
          /\ tabs = [t \in 1..3 |-> "normal"]
          /\ \E b \in ListenBuffers : threads = <<[pc |-> "poll", buffer |-> b]>>
       \/ \* the logger in its listening loop
          /\ Len(competitors) = 2
          /\ pc = "listen"
          /\ is_running = TRUE
          /\ printed = {}
          /\ buffer \in ListenBuffers
          /\ competitor_listbox = <<>>
          /\ lane_combos = [l \in Lanes |-> ""]
          /\ lane_options = {}
          /\ is_connected = FALSE
          /\ is_listening = FALSE
          /\ race_btn = "normal"
          /\ next_to_race_btn = "disabled"
          /\ tabs = [t \in 1..3 |-> "disabled"]
          /\ threads = <<>>

\* the reads of the port: the first takes all of fBytes, the later ones find
\* in_waiting at 0
PortHolds == IF fPos = 0 THEN fBytes ELSE <<>>

PortRead ==
    /\ fPos' = Len(fBytes)
    /\ UNCHANGED <<fBytes, fBuffer, fLines, fCuts, parserVars, resolverVars, rankerVars>>

ListenNext ==
    \/ \E i \in 1..Len(threads) :
          /\ pc = "mainloop"
          /\ thread_poll(i, PortHolds, FALSE)
          /\ PortRead
          /\ UNCHANGED loggerVars
    \/ \E i \in 1..Len(threads) : thread_check(i) /\ GuiRuns
    \/ \E i \in 1..Len(threads) : thread_stop(i) /\ GuiRuns
    \/ \E heat_saved \in BOOLEAN, standings_saved \in BOOLEAN :
          tk_dispatch(heat_saved, standings_saved) /\ GuiRuns
    \/ \E heat_saved \in BOOLEAN, standings_saved \in BOOLEAN :
          /\ run_tournament(PortHolds, FALSE, heat_saved, standings_saved)
          /\ PortRead

ListenSpec == ListenInit /\ [][ListenNext]_vars

---------------------------------------------------------------------------

(* The standings ranker, for every ledger of three competitors of a small   *)
(* universe: the GUI on its standings tab, where the Refresh button runs    *)
(* update_standings_display, and the logger before its last save            *)

\* a time beyond 999.0, the key of a competitor without a best_time
LongTime == 10000000

\* the entry of a competitor that has raced once, in heat 1 on lane 1
RacedOnce(name, time_val) ==
    ApplyLane(<<NewCompetitor(name)>>, name, 1, 1, time_val)[1]

RankEntries(name) ==
    {NewCompetitor(name)} \cup
    {RacedOnce(name, t) : t \in (0..MaxTime) \cup {LongTime}}

\* A, B and C, registered in this order
RankLedgers ==
    {<<a, b, c>> : a \in RankEntries("A"), b \in RankEntries("B"),
                   c \in RankEntries("C")}

RankInit ==
    /\ FramerIdle /\ ParserIdle /\ ResolverIdle /\ RankerIdle
    /\ competitors \in RankLedgers
    /\ current_heat_assignments = <<>>
    /\ results_text = NoResults
    /\ heat_number = 2
    /\ heats_file = <<HeaderRow>>
    /\ standings_file = <<>>
    /\ error_dialog = ""
    /\ after_queue = <<>>
    /\ threads = <<>>
    /\ is_listening = FALSE
    /\ race_btn = "normal"
    /\ \/ \* the GUI after a heat, the user on the standings tab
          /\ GuiIdle
          /\ competitor_listbox =
                [i \in 1..Len(competitors) |-> competitors[i].name]
          /\ lane_combos = ClearedCombos
          /\ lane_options = LaneOptionsOf(competitors)
          /\ is_connected = TRUE
          /\ next_to_race_btn = "normal"
          /\ tabs = [t \in 1..3 |-> "normal"]
       \/ \* the logger at the lane prompts of heat 2
          /\ pc = "assign_heat"
          /\ is_running = TRUE
          /\ printed = {}
          /\ buffer = <<>>
          /\ competitor_listbox = <<>>
          /\ lane_combos = [l \in Lanes |-> ""]
          /\ lane_options = {}
          /\ is_connected = FALSE
          /\ next_to_race_btn = "disabled"
          /\ tabs = [t \in 1..3 |-> "disabled"]

\* the refresh that sorts the ledger itself instead of a copy of its items
update_standings_display_SortsLedger ==
    /\ pc = "mainloop"
    /\ tabs[3] = "normal"
    /\ competitors' = SortedByBest(competitors)
    /\ standings_tree' = TreeRows(competitors)
    /\ error_dialog' = ""
    /\ UNCHANGED <<competitor_listbox, heat_number, current_heat_assignments,
                   lane_combos, lane_options, is_connected, is_listening,
                   race_btn, next_to_race_btn, tabs, heats_file,
                   standings_file, after_queue, threads, results_text,
                   loggerVars, framerVars, parserVars, resolverVars>>

\* update_standings_display, the command of the Refresh button: the tree is
\* cleared and filled with the rows of the ledger
update_standings_display ==
    /\ pc = "mainloop"
    /\ tabs[3] = "normal"
    /\ standings_tree' = TreeRows(competitors)
    /\ error_dialog' = ""
    /\ UNCHANGED <<competitors, competitor_listbox, heat_number,
                   current_heat_assignments, lane_combos, lane_options,
                   is_connected, is_listening, race_btn, next_to_race_btn,
                   tabs, heats_file, standings_file, after_queue, threads,
                   results_text, loggerVars, framerVars, parserVars,
                   resolverVars>>

RankNext ==
    \/ update_standings_display
    \/ \E standings_saved \in BOOLEAN :
          KeyboardInterrupt(standings_saved) /\ LoggerRuns

RankSpec == RankInit /\ [][RankNext]_vars

---------------------------------------------------------------------------

(* The GUI with its scheduling: a started thread keeps running and the Tk   *)
(* event loop keeps dispatching.  Nothing obliges the user to act.          *)

GuiLiveInit == GuiInit /\ GuiIdle /\ FramerIdle /\ ParserIdle /\ ResolverIdle /\ RankerIdle

ThreadNext ==
    \E i \in 1..Len(threads) :
       \/ thread_check(i) /\ GuiRuns
       \/ \E chunk \in Chunks \cup {<<>>}, fault \in BOOLEAN :
             thread_poll(i, chunk, fault) /\ GuiRuns
       \/ thread_stop(i) /\ GuiRuns

TkNext ==
    \E heat_saved \in BOOLEAN, standings_saved \in BOOLEAN :
       tk_dispatch(heat_saved, standings_saved) /\ GuiRuns

GuiLiveSpec ==
    GuiLiveInit /\ [][GuiNext]_vars /\ WF_vars(ThreadNext) /\ WF_vars(TkNext)

---------------------------------------------------------------------------
(* Properties *)

\* the times of the heat records of a ledger entry
Recorded(e) == [k \in 1..Len(e.heats) |-> e.heats[k].time]

\* C1: every competitor of the ledger has races_count equal to the number of
\* its heat records, total_time equal to the sum of their times, and
\* best_time equal to their minimum, absent exactly when there is no record
C1_LedgerConsistent ==
    \A i \in 1..Len(competitors) :
       LET e == competitors[i]
       IN /\ e.races_count = Len(e.heats)
          /\ e.total_time = SumSeq(Recorded(e))
          /\ e.best_time = IF e.heats = <<>> THEN None ELSE MinSeq(Recorded(e))

\* a competitor with records of two heats, the later one the faster
C1_Witness ==
    \E i \in 1..Len(competitors) :
       LET e == competitors[i]
       IN /\ Len(e.heats) >= 2
          /\ e.heats[1].heat # e.heats[2].heat
          /\ e.heats[2].time < e.heats[1].time
          /\ e.best_time = e.heats[2].time

\* C2: the heat log is append-only: at every step the heat rows already in
\* the log are a prefix of the heat rows after the step
C2_AppendOnly ==
    [][IsPrefix(HeatRows(heats_file), HeatRows(heats_file'))]_vars

\* the number of heat records in the whole ledger
RECURSIVE RecordCount(_)
RecordCount(comps) ==
    IF comps = <<>> THEN 0
    ELSE Len(Head(comps).heats) + RecordCount(Tail(comps))

\* the step of the Tk loop that runs process_race_results
ProcessStep ==
    /\ after_queue # <<>>
    /\ Head(after_queue).cb = "process_race_results"
    /\ after_queue' = Tail(after_queue)

\* C3: the ledger update of a heat is atomic: the step that processes a
\* result applies every lane that has an assignment and a time, or it
\* applies none and shows an error
C3_AtomicUpdate ==
    [][ProcessStep =>
         LET qualifying == {l \in Lanes :
                               /\ l \in DOMAIN current_heat_assignments
                               /\ Head(after_queue).times[l] # None}
             added == RecordCount(competitors') - RecordCount(competitors)
         IN \/ added = Cardinality(qualifying)
            \/ added = 0 /\ error_dialog' # ""]_vars

\* C4: in the standings no competitor without a best_time stands before a
\* competitor that has one
C4_ZeroRacesLast ==
    LET s == SortedByBest(competitors)
    IN \A i \in 1..Len(s), j \in 1..Len(s) :
          i < j => ~(s[i].best_time = None /\ s[j].best_time # None)

\* C5: the heat number of a row added to the heat log is the heat number
\* that was active while the heat was listened for
C5_LoggedHeatNumber ==
    [][Len(HeatRows(heats_file')) > Len(HeatRows(heats_file)) =>
         HeatRows(heats_file')[Len(HeatRows(heats_file'))].heat = heat_number]_vars

\* the threads inside the listening loop
Listening == {i \in 1..Len(threads) : threads[i].pc \in {"check", "poll"}}

\* a result waits in the queue of the Tk loop
ResultPending ==
    \E k \in 1..Len(after_queue) : after_queue[k].cb = "process_race_results"

\* C6: at most one thread is in the listening loop, and while one is, or
\* while its result waits to be processed, the start command is disabled and
\* no step starts a thread or changes the lane assignment
C6_SingleListener ==
    /\ [](/\ Cardinality(Listening) <= 1
          /\ (Listening # {} \/ ResultPending) => race_btn = "disabled")
    /\ [][(Listening # {} \/ ResultPending) =>
            /\ Len(threads') <= Len(threads)
            /\ current_heat_assignments' = current_heat_assignments]_vars

\* a thread listens with assignments on two lanes while the user is on the
\* racing tab with the button disabled
C6_Witness ==
    /\ Listening # {}
    /\ tabs[2] = "normal"
    /\ race_btn = "disabled"
    /\ Cardinality(DOMAIN current_heat_assignments) = 2

\* the listening session is over without a result: the thread has left the
\* loop on a false loop condition (is_listening still set) or on an
\* exception (its callbacks scheduled or run)
SessionLost ==
    /\ pc = "mainloop"
    /\ threads = <<>>
    /\ ~ResultPending
    /\ is_listening

\* C7: after a listening session has ended on a disconnection and the timer
\* is connected again, a state is reached, unless the timer is disconnected
\* once more, in which the next heat can be started: not listening and the
\* race button enabled
C7_ResumesAfterReconnect ==
    (SessionLost /\ is_connected) ~>
        ((~is_listening /\ race_btn = "normal") \/ ~is_connected)

\* C8: once the whole byte sequence has been read, the lines yielded chunk by
\* chunk are the lines yielded when the sequence is read as one chunk
C8_ChunkingIrrelevant ==
    fPos = Len(fBytes) => fLines = SplitLines(Decode(fBytes))[1]

\* C9: no yielded line holds a newline or a carriage return
C9_NoInteriorDelimiter ==
    \A k \in 1..Len(fLines) :
       ~Contains(fLines[k], LF) /\ ~Contains(fLines[k], CR)

\* the fields of a line: its maximal runs of characters that are not
\* whitespace
RECURSIVE Fields(_)
Fields(line) ==
    LET l == LStrip(line)
    IN IF l = <<>> THEN <<>>
       ELSE LET k == Find(l \o <<" ">>, Whitespace)
            IN <<Take(l, k - 1)>> \o Fields(Drop(l, k))

\* a numeric token with precisely four fractional digits: digits, a dot,
\* four digits and nothing else
IsTimeToken(tok) ==
    LET n == DigitRun(tok, 1)
    IN /\ n >= 1
       /\ Len(tok) = n + 5
       /\ tok[n + 1] = "."
       /\ DigitRun(tok, n + 2) = 4

\* the values of the first four time tokens of a line, the other slots absent
TokenTimes(line) ==
    LET toks == SelectSeq(Fields(line), IsTimeToken)
    IN [l \in Lanes |-> IF l <= Len(toks)
                        THEN FloatOf(toks[l], 1, Len(toks[l])) ELSE None]

\* C10: parse_timer_data returns, in order, the first four tokens of the line
\* that are numbers with precisely four fractional digits, and nothing for
\* any other token
C10_ExactTokens ==
    pTimes # <<>> => pTimes = TokenTimes(pLine)

\* C11: the resolver returns no winner iff every slot is absent; otherwise
\* the winner's slot is present, no present time is smaller, and no
\* lower-numbered lane holds the same time
C11_WinnerIsFirstMinimum ==
    rWinner # <<>> =>
       LET w == rWinner[1]
       IN /\ (w = None) <=> (\A l \in Lanes : rTimes[l] = None)
          /\ w # None =>
                /\ w \in Lanes
                /\ rTimes[w] # None
                /\ rWinner[2] = rTimes[w]
                /\ \A l \in Lanes : rTimes[l] # None => rTimes[w] <= rTimes[l]
                /\ \A l \in Lanes : l < w => rTimes[l] # rTimes[w]

\* lane 1 absent, lanes 2 and 4 tied on the smallest time, lane 2 returned
C11_Witness ==
    /\ rWinner # <<>>
    /\ rTimes[1] = None
    /\ rTimes[2] # None /\ rTimes[4] = rTimes[2]
    /\ rTimes[3] # None /\ rTimes[3] > rTimes[2]
    /\ rWinner[1] = 2

\* the competitors whose lane holds a time in the heat being processed
Counted(times) ==
    {current_heat_assignments[l] :
        l \in {k \in DOMAIN current_heat_assignments : times[k] # None}}

\* C12: the step that processes a result leaves the ledger entry (heat
\* records, races_count, total_time, best_time) of every competitor
\* unchanged that is not assigned to a lane whose slot holds a time: an
\* absent time on an assigned lane, a competitor without a lane and a time
\* on a lane without a competitor change nothing
C12_OnlyTimedLanesCount ==
    [][ProcessStep =>
         /\ Len(competitors') = Len(competitors)
         /\ \A i \in 1..Len(competitors) :
               competitors[i].name \notin Counted(Head(after_queue).times) =>
                  competitors'[i] = competitors[i]]_vars

\* a heat has been processed in which A had lane 1 without a time, lane 2
\* had a time without a competitor and B had no lane: the ledger is as it
\* was, B's record of heat 1 included
C12_Witness ==
    /\ after_queue = <<>>
    /\ heat_number = 3
    /\ results_text.times[1] = None
    /\ results_text.times[2] # None
    /\ DOMAIN current_heat_assignments = {1}
    /\ current_heat_assignments[1] = "A"
    /\ competitors = <<NewCompetitor("A"), RacedBefore("B")>>

\* the ledger entry of a name that is a key of the ledger
EntryOf(comps, name) == comps[KeyIndex(comps, name)]

\* C13: a registered competitor stays in the ledger and its heat records
\* only grow by appending: at every step every competitor of the ledger is
\* still there afterwards, with the records it had as a prefix of the
\* records it has
C13_NeverRemoved ==
    [][\A name \in Names(competitors) :
          /\ name \in Names(competitors')
          /\ IsPrefix(EntryOf(competitors, name).heats,
                      EntryOf(competitors', name).heats)]_vars

\* C14: while a listening task is active (a thread is in the listening loop
\* or its result waits to be processed) no step changes the set of
\* competitors of the ledger or the lane assignment of the current heat
C14_NoChangeWhileListening ==
    [][(Listening # {} \/ ResultPending) =>
          /\ Names(competitors') = Names(competitors)
          /\ current_heat_assignments' = current_heat_assignments]_vars

\* the step hands a result to the Tk loop
ResultPosted ==
    /\ Len(after_queue') = Len(after_queue) + 1
    /\ after_queue'[Len(after_queue')].cb = "process_race_results"

\* a step of a listening session that yields no result: a step of a GUI
\* thread that schedules no process_race_results, or a round of the
\* logger's listening loop, its end on Ctrl+C or on an error included,
\* after which no heat has been completed
SessionStepWithoutResult ==
    \/ /\ pc = "mainloop"
       /\ threads' # threads
       /\ Len(threads') <= Len(threads)
       /\ ~ResultPosted
    \/ /\ pc = "listen"
       /\ pc' # "assign_heat"

\* C15: a listening session that stops before a line with a time has been
\* received records no partial heat: none of its steps up to and including
\* the one that ends it changes the ledger, the heat number or the heat log
C15_NoPartialHeat ==
    [][SessionStepWithoutResult =>
          /\ competitors' = competitors
          /\ heat_number' = heat_number
          /\ heats_file' = heats_file]_vars

\* the user has disconnected during the first heat and the thread has left
\* its loop: no thread, no callback, heat 1 with nothing recorded
C15_Witness ==
    /\ pc = "mainloop"
    /\ is_listening /\ ~is_connected
    /\ threads = <<>> /\ after_queue = <<>>
    /\ current_heat_assignments # <<>>
    /\ heat_number = 1
    /\ heats_file = <<HeaderRow>>
    /\ competitors # <<>>
    /\ \A i \in 1..Len(competitors) : competitors[i].heats = <<>>

\* the error box of the listening thread is among the callbacks scheduled by
\* the step
ErrorScheduled ==
    /\ Len(after_queue') > Len(after_queue)
    /\ \E k \in (Len(after_queue) + 1)..Len(after_queue') :
          after_queue'[k].cb = "showerror"

\* the port raises in a listening session.  GUI: a thread reads the port the
\* user has closed, or reads and ends by scheduling the error box.  Logger:
\* a round of the listening loop ends in the handler that prints "Error".
TransportError ==
    \/ /\ pc = "mainloop"
       /\ \/ /\ ~is_connected
             /\ \E i \in 1..Len(threads) :
                   threads[i].pc = "poll" /\ threads' = RemoveAt(threads, i)
          \/ ErrorScheduled
    \/ /\ pc = "listen"
       /\ "Error" \in printed'

\* C16: when the port raises during listening the session stops (the GUI is
\* not listening any more, the logger is not running), the error is reported
\* (the GUI schedules its error box, the logger prints the error), and the
\* ledger, the heat number and the heat log are as before the step
C16_TransportErrorStops ==
    [][TransportError =>
          /\ IF pc = "mainloop"
             THEN ~is_listening' /\ ErrorScheduled
             ELSE ~is_running' /\ pc' = "exit" /\ "Error" \in printed'
          /\ competitors' = competitors
          /\ heat_number' = heat_number
          /\ heats_file' = heats_file]_vars

\* the error box of a failed first heat is on the screen while the timer is
\* still connected: not listening, no thread, nothing recorded
C16_Witness ==
    /\ pc = "mainloop"
    /\ error_dialog = "Listening Error"
    /\ is_connected /\ ~is_listening
    /\ threads = <<>>
    /\ current_heat_assignments # <<>>
    /\ heat_number = 1
    /\ heats_file = <<HeaderRow>>
    /\ \A i \in 1..Len(competitors) : competitors[i].heats = <<>>

\* the buffer of the listening session: of the GUI's thread or of the logger
SessionBuffer ==
    IF pc = "mainloop"
    THEN IF threads # <<>> THEN threads[1].buffer ELSE <<>>
    ELSE buffer

\* the lines the session gets out of its buffer and the bytes in the port
LinesRead == SplitLines(SessionBuffer \o Decode(fBytes))[1]

\* the step reads the bytes that wait in the port
ReadStep == fPos = 0 /\ fPos' # 0

\* the session is in its listening loop
StillListening ==
    IF pc = "mainloop" THEN Listening # {} /\ is_listening
    ELSE pc = "listen" /\ is_running

\* C17: a read that brings non-empty lines, none of which holds a time, does
\* not end the heat: the session is still listening after it, nothing is
\* handed to the Tk loop, and the ledger, the heat number, the heat log and
\* the standings file are unchanged
C17_TelemetryKeepsListening ==
    [][(/\ ReadStep
        /\ LinesRead # <<>>
        /\ \A k \in 1..Len(LinesRead) : ~AnyTime(parse_timer_data(LinesRead[k])))
       => /\ StillListening'
          /\ after_queue' = after_queue
          /\ competitors' = competitors
          /\ heat_number' = heat_number
          /\ heats_file' = heats_file
          /\ standings_file' = standings_file]_vars

\* the GUI's thread has read "x" and is in its loop, the heat still open
C17_Witness ==
    /\ pc = "mainloop"
    /\ fBytes = ChunkTelemetry /\ fPos # 0
    /\ Listening # {} /\ is_listening
    /\ after_queue = <<>>
    /\ results_text = NoResults
    /\ heat_number = 2
    /\ heats_file = <<HeaderRow>>

\* the lanes on which a competitor has a record of the given heat
LanesRecorded(e, heat) ==
    {e.heats[k].lane : k \in {j \in 1..Len(e.heats) : e.heats[j].heat = heat}}

\* the number of records a competitor has of the given heat
RecordsOfHeat(e, heat) ==
    Cardinality({k \in 1..Len(e.heats) : e.heats[k].heat = heat})

\* the session has left its listening loop
SessionOver == IF pc = "mainloop" THEN Listening = {} ELSE pc # "listen"

\* C18: a listening session resolves at most one heat.  In the session of
\* heat 2 the heat number is 2 or 3, the heat log has at most one heat row
\* and no competitor has two records of heat 2 on the same lane; once the
\* heat number is 3 the session has stopped listening and every competitor
\* has precisely the records of one update, those of the heat displayed:
\* one for each of its lanes that holds a time
C18_OneHeatPerSession ==
    /\ heat_number \in {2, 3}
    /\ Len(HeatRows(heats_file)) <= 1
    /\ \A i \in 1..Len(competitors) :
          RecordsOfHeat(competitors[i], 2) =
             Cardinality(LanesRecorded(competitors[i], 2))
    /\ heat_number = 3 =>
          /\ SessionOver
          /\ \A i \in 1..Len(competitors) :
                LanesRecorded(competitors[i], 2) =
                   {l \in DOMAIN current_heat_assignments :
                       /\ current_heat_assignments[l] = competitors[i].name
                       /\ results_text.times[l] # None}

\* the logger has read two lines with times in one chunk: the heat of the
\* first line is resolved, with one row in the log and A's record of lane 1,
\* and the second line is left in the buffer
C18_Witness ==
    /\ pc = "assign_heat"
    /\ fBytes = ChunkTwoLines /\ fPos # 0
    /\ heat_number = 3
    /\ Len(HeatRows(heats_file)) = 1
    /\ results_text.times = parse_timer_data(SplitLines(ChunkExample)[1][1])
    /\ buffer # <<>>
    /\ 1 \in DOMAIN current_heat_assignments
    /\ current_heat_assignments[1] = "A"
    /\ RecordsOfHeat(competitors[1], 2) = 1

\* the step reports that the heat row could not be written: the GUI with its
\* "Save Error" box, the logger by printing "Error saving heat results"
HeatSaveFailed ==
    IF pc = "mainloop" THEN ProcessStep /\ error_dialog' = "Save Error"
    ELSE "Error saving heat results" \in printed'

\* the step completes a heat
HeatCompleted == heat_number' = heat_number + 1

\* C19: a heat whose row cannot be appended to the heat log is completed
\* all the same: every assigned lane with a time adds its record to the
\* ledger, the standings file, if written, holds the standings of the new
\* ledger, the heat number advances and the log is as it was; and a
\* completed heat whose append succeeds adds one row behind the rows that
\* are in the log
C19_AppendFailureKeepsGoing ==
    [][/\ HeatSaveFailed =>
             /\ HeatCompleted
             /\ heats_file' = heats_file
             /\ RecordCount(competitors') - RecordCount(competitors) =
                   Cardinality({l \in DOMAIN current_heat_assignments :
                                   results_text'.times[l] # None})
             /\ standings_file' \in {standings_file, StandingsRows(competitors')}
       /\ (HeatCompleted /\ ~HeatSaveFailed) =>
             /\ Len(heats_file') = Len(heats_file) + 1
             /\ IsPrefix(heats_file, heats_file')]_vars

\* the logger after two heats of which the first could not be logged: the
\* log holds the row of heat 2 alone, the ledger the records of both heats
C19_Witness ==
    /\ pc = "assign_heat"
    /\ heat_number = 3
    /\ Len(HeatRows(heats_file)) = 1
    /\ HeatRows(heats_file)[1].heat = 2
    /\ \E i \in 1..Len(competitors) :
          /\ RecordsOfHeat(competitors[i], 1) > 0
          /\ RecordsOfHeat(competitors[i], 2) > 0

\* a heat is completed without a row added to the heat log
HeatRowNotWritten == HeatCompleted /\ heats_file' = heats_file

\* a heat is completed and the standings file does not hold the standings
\* of the ledger
StandingsNotWritten ==
    HeatCompleted /\ standings_file' # StandingsRows(competitors')

\* the front end is told that the heat row could not be written
HeatFailureReported ==
    IF pc = "mainloop" THEN error_dialog' = "Save Error"
    ELSE "Error saving heat results" \in printed'

\* the front end is told that the standings could not be written, by an
\* event other than the one of the heat row
StandingsFailureReported ==
    IF pc = "mainloop" THEN error_dialog' \notin {"", "Save Error", "Listening Error"}
    ELSE "Error saving standings" \in printed'

\* the next heat can be started: the GUI's button is enabled, the logger is
\* running and at its lane prompts
NextHeatCanStart ==
    IF pc = "mainloop" THEN race_btn = "normal"
    ELSE is_running /\ pc = "assign_heat"

\* C20: a heat row that cannot be appended and a standings file that cannot
\* be written are each reported to the front end, by different events, and
\* after either the ledger holds the records of the heat and the next heat
\* can be started
C20_SaveFailuresReported ==
    [][/\ HeatRowNotWritten => HeatFailureReported
       /\ StandingsNotWritten => StandingsFailureReported
       /\ (HeatRowNotWritten \/ StandingsNotWritten) =>
             /\ NextHeatCanStart'
             /\ RecordCount(competitors') - RecordCount(competitors) =
                   Cardinality({l \in DOMAIN current_heat_assignments :
                                   results_text'.times[l] # None})]_vars

\* the step registers the name: add_competitor of the GUI, or an answer to a
\* name prompt of the logger's setup_competitors
Registers(name) ==
    \/ pc = "mainloop" /\ add_competitor(name)
    \/ \E more \in BOOLEAN : setup_competitors(name, more)

\* C21: registering a name that is in the ledger is rejected and changes
\* nothing: the ledger with every entry is as before, and the front end is
\* where it was (the logger still wants the name it asked for)
C21_DuplicateRejected ==
    [][\A name \in Names(competitors) :
          Registers(name) => /\ competitors' = competitors
                             /\ competitor_listbox' = competitor_listbox
                             /\ pc' = pc]_vars

\* the best-time and average-time fields of a standings row agree with the
\* ledger entry of its competitor
RowFits(r, e) ==
    /\ (r.best = None) <=> (e.heats = <<>>)
    /\ (r.avg = <<>>) <=> (e.races_count = 0)
    /\ e.races_count > 0 => r.avg = <<e.total_time, e.races_count>>

\* C22: in every row of a standings file just written the best-time field is
\* empty iff the competitor has no recorded time, and the average-time field
\* is empty iff races_count is 0 and total_time / races_count otherwise
C22_StandingsFields ==
    [][standings_file' # standings_file =>
          \A k \in 1..Len(standings_file') :
             RowFits(standings_file'[k],
                     EntryOf(competitors', standings_file'[k].name))]_vars

\* the step completes a heat and writes the standings file: the logger does
\* not print that the write failed; the GUI, which prints nothing, leaves a
\* file that differs from the one before
StandingsWritten ==
    /\ HeatCompleted
    /\ IF pc = "mainloop" THEN standings_file' # standings_file
       ELSE "Error saving standings" \notin printed'

\* C23: after a resolved heat whose standings write succeeds the standings
\* file holds one row for each competitor of the ledger, those without a
\* race included, and nothing else; row k has rank k, and the race count of
\* every row is the one of the ledger with this heat applied
C23_SnapshotComplete ==
    [][StandingsWritten =>
          /\ Len(standings_file') = Len(competitors')
          /\ {standings_file'[k].name : k \in 1..Len(standings_file')} =
                Names(competitors')
          /\ \A k \in 1..Len(standings_file') :
                /\ standings_file'[k].rank = k
                /\ standings_file'[k].races =
                      EntryOf(competitors', standings_file'[k].name).races_count]_vars

\* the logger after two heats, both saved: the file holds two rows, one of a
\* competitor with two races and one of a competitor that has not raced
C23_Witness ==
    /\ pc = "assign_heat"
    /\ heat_number = 3
    /\ Len(competitors) = 2
    /\ Len(standings_file) = 2
    /\ standings_file[1].races = 2
    /\ standings_file[2].races = 0
    /\ \E i \in 1..2 : competitors[i].races_count = 2

\* C24: in every row of the heat log the winner field is the name of the
\* competitor on the winning lane, and it is empty only when no lane holds a
\* time; a row in which a competitor has a time has a winner
C24_WinnerLogged ==
    \A k \in 1..Len(HeatRows(heats_file)) :
       LET r == HeatRows(heats_file)[k]
       IN /\ (r.winner = "") => (\A l \in Lanes : r.times[l] = None)
          /\ (r.winner # "") => r.winner = r.names[find_winner(r.times)]
          /\ (\E l \in Lanes : r.names[l] # "" /\ r.times[l] # None) =>
                r.winner # ""

\* the rows are in the order the claim asks for, by the ledger entries of
\* their competitors
RowsOrdered(rows) ==
    \A i \in 1..Len(rows), j \in 1..Len(rows) :
       i < j =>
          LET a == EntryOf(competitors, rows[i].name)
              b == EntryOf(competitors, rows[j].name)
          IN /\ (a.best_time # None /\ b.best_time # None) =>
                   a.best_time <= b.best_time
             /\ (a.best_time = b.best_time) =>
                   KeyIndex(competitors, a.name) < KeyIndex(competitors, b.name)

\* C25: the standings, in the GUI's table and in the standings file, are in
\* the order of non-decreasing best_time among the competitors that have
\* one, and two competitors of equal best_time, or both without one, are in
\* the order of their registration
C25_StableByBestTime ==
    /\ RowsOrdered(standings_tree)
    /\ RowsOrdered(standings_file)

\* the table of a ledger in which A is slower than B and C, which are tied:
\* B, C, A
C25_Witness ==
    /\ Len(standings_tree) = 3
    /\ standings_tree[1].name = "B"
    /\ standings_tree[2].name = "C"
    /\ standings_tree[3].name = "A"
    /\ competitors[2].best_time # None
    /\ competitors[2].best_time = competitors[3].best_time

\* the step computes the standings: it fills the GUI's table or writes the
\* standings file
RankStep ==
    standings_tree' # standings_tree \/ standings_file' # standings_file

\* C26: computing the standings changes no field of the ledger, nor the heat
\* number, nor the lane assignment, and computing them again from the same
\* ledger gives the same rows: a table that has been filled is not changed
\* by a refresh
C26_RankingIsPure ==
    [][/\ RankStep => /\ competitors' = competitors
                      /\ heat_number' = heat_number
                      /\ current_heat_assignments' = current_heat_assignments
       /\ (pc = "mainloop" /\ standings_tree # <<>>) =>
             standings_tree' = standings_tree]_vars

\* the table of a ledger whose registration order is not its ranking: C, the
\* fastest, is first in the table and still last in the ledger
C26_Witness ==
    /\ Len(standings_tree) = 3
    /\ standings_tree[1].name = "C"
    /\ competitors[3].name = "C"
    /\ competitors[1].best_time # None
    /\ competitors[3].best_time < competitors[1].best_time

\* what a resolved heat makes of a ledger entry, stated without the update
\* loop: one record for each lane of the competitor that holds a time, in
\* lane order, and the three totals brought up to date
RefEntry(e, assignments, times, heat) ==
    LET lanes == SelectSeq(<<1, 2, 3, 4>>,
                           LAMBDA l : /\ l \in DOMAIN assignments
                                      /\ assignments[l] = e.name
                                      /\ times[l] # None)
        new == [k \in 1..Len(lanes) |->
                  [heat |-> heat, lane |-> lanes[k], time |-> times[lanes[k]]]]
    IN [name |-> e.name,
        heats |-> e.heats \o new,
        races_count |-> e.races_count + Len(lanes),
        total_time |-> e.total_time +
                       SumSeq([k \in 1..Len(lanes) |-> times[lanes[k]]]),
        best_time |-> IF lanes = <<>> THEN e.best_time
                      ELSE IF e.best_time = None
                      THEN MinSeq([k \in 1..Len(lanes) |-> times[lanes[k]]])
                      ELSE MinSeq(<<e.best_time>> \o
                                  [k \in 1..Len(lanes) |-> times[lanes[k]]])]

\* C27: both front ends make the same of a heat.  Whichever of them
\* completes a heat, the ledger after it is the ledger before it with every
\* entry brought up to date by the heat's assignment and times, the winner
\* shown is the first lane of the smallest time, and a standings file that
\* is written holds the standings rows of that ledger
C27_FrontEndsAgree ==
    [][HeatCompleted =>
          LET times == results_text'.times
              w == results_text'.winner_lane
          IN /\ competitors' =
                   [i \in 1..Len(competitors) |->
                      RefEntry(competitors[i], current_heat_assignments,
                               times, heat_number)]
             /\ w \in Lanes /\ times[w] # None
             /\ \A l \in Lanes : times[l] # None =>
                   \/ times[w] < times[l]
                   \/ times[w] = times[l] /\ w <= l
             /\ standings_file' \in
                   {standings_file, StandingsRows(competitors')}]_vars

\* the GUI has completed heat 2 in which A ran on lanes 1 and 2: two new
\* records, lane 2 the winner, the standings written
C27_Witness ==
    /\ pc = "mainloop"
    /\ heat_number = 3
    /\ fBytes = ChunkExample
    /\ results_text.winner_lane = 2
    /\ LanesRecorded(competitors[1], 2) = {1, 2}
    /\ standings_file = StandingsRows(competitors)

\* the step processes the result of a heat to the end: the GUI's callback
\* with every competitor that has a time on its lane in the ledger, or the
\* round of the logger's listening loop that shows a result
ResolvesHeat ==
    \/ /\ ProcessStep
       /\ Counted(Head(after_queue).times) \subseteq Names(competitors)
    \/ /\ pc = "listen"
       /\ pc' = "assign_heat"

\* C28: the heat number starts at 1, and a step changes it only by adding 1
\* and only by resolving a heat, which always adds 1: every other step (a
\* line without a time, a declined heat, a stopped session, a transport or
\* a write error) leaves it as it is.  Every record of the ledger carries a
\* heat number from 1 up to the current one, no competitor has two records
\* of one heat on one lane, and no two rows of the heat log carry the same
\* number
C28_HeatNumberCounts ==
    /\ [](/\ heat_number >= 1
          /\ \A i \in 1..Len(competitors) :
                /\ \A k \in 1..Len(competitors[i].heats) :
                      competitors[i].heats[k].heat \in 1..heat_number
                /\ \A h \in 1..heat_number :
                      RecordsOfHeat(competitors[i], h) =
                         Cardinality(LanesRecorded(competitors[i], h))
          /\ \A j \in 1..Len(HeatRows(heats_file)), k \in 1..Len(HeatRows(heats_file)) :
                j # k => HeatRows(heats_file)[j].heat # HeatRows(heats_file)[k].heat)
    /\ [][/\ heat_number' # heat_number => ResolvesHeat
          /\ ResolvesHeat => heat_number' = heat_number + 1]_vars

\* the logger after two resolved heats and a declined one in between or
\* after: heat number 3, the rows of heats 1 and 2 in the log
C28_Witness ==
    /\ pc = "assign_heat"
    /\ heat_number = 3
    /\ Len(HeatRows(heats_file)) = 2
    /\ HeatRows(heats_file)[1].heat = 1
    /\ HeatRows(heats_file)[2].heat = 2
    /\ \E i \in 1..Len(competitors) :
          /\ RecordsOfHeat(competitors[i], 1) = 1
          /\ RecordsOfHeat(competitors[i], 2) = 1

\* a callback of the listening thread is waiting in the event loop: a heat
\* result to process, or the error dialog and the re-enabling of the button
CallbackQueued == after_queue # <<>>

\* C29: in the GUI, whenever is_listening is set or the race button is
\* disabled, a listening thread is running or a callback of one is queued
C29_ListeningStateAgrees ==
    (pc = "mainloop" /\ (is_listening \/ race_btn = "disabled")) =>
        (threads # <<>> \/ CallbackQueued)

\* the timer was disconnected during listening and the thread has ended on
\* its loop test: still marked listening, the button disabled, no thread
\* and nothing queued
C29_ButtonStuck ==
    ~(/\ pc = "mainloop"
      /\ is_listening
      /\ race_btn = "disabled"
      /\ ~is_connected
      /\ threads = <<>>
      /\ after_queue = <<>>)

\* the carry-over buffer holds a complete line with a time.  The inner loop
\* of a session consumes every complete line unless it breaks on a result,
\* so a complete line in the buffer was received before the previous heat
\* was resolved
StaleResult == AnyTime(TakeResult(buffer).times)

\* the round of the logger's listening loop that resolves the heat
LoggerResolves ==
    /\ pc = "listen"
    /\ pc' = "assign_heat"
    /\ heat_number' = heat_number + 1

\* C30: in the logger, no heat is resolved from a line that was left in the
\* carry-over buffer when the previous heat was resolved: the step that
\* resolves a heat starts with no complete timed line in the buffer
C30_NoCarryOverResult ==
    [][LoggerResolves => ~StaleResult]_vars

\* heat 2 is assigned and confirmed while the second line of the chunk that
\* resolved heat 1 waits in the buffer with a time
C30_StaleLineWaits ==
    ~(/\ pc = "listen"
      /\ heat_number = 2
      /\ Len(HeatRows(heats_file)) = 1
      /\ current_heat_assignments # <<>>
      /\ StaleResult)

\* a heat row can be appended: the logger writes its header on construction;
\* in the GUI the racing tab is behind the connection tab, which
\* finish_setup opens
CanAppendHeatRow == pc # "mainloop" \/ tabs[1] = "normal"

RECURSIVE DecodeCuts(_, _)
DecodeCuts(bytes, cuts) ==
    IF cuts = <<>> THEN <<>>
    ELSE Decode(Take(bytes, Head(cuts)))
            \o DecodeCuts(Drop(bytes, Head(cuts)), Tail(cuts))

\* the text after the last newline or carriage return of s, s itself when
\* it holds neither
AfterLastDelimiter(s) ==
    LET D == {i \in 1..Len(s) : s[i] \in {LF, CR}}
    IN IF D = {} THEN s
       ELSE Drop(s, CHOOSE i \in D : \A j \in D : j <= i)

\* the text of the chunk the step reads
ChunkRead == Decode(SubSeq(fBytes, fPos + 1, fPos'))

\* the chunk the step reads is text without a newline, then a carriage
\* return and a newline, and with the buffer the text is not blank
CrLfChunk ==
    /\ fPos' > fPos
    /\ Len(ChunkRead) >= 2
    /\ SubSeq(ChunkRead, Len(ChunkRead) - 1, Len(ChunkRead)) = <<CR, LF>>
    /\ ~Contains(Take(ChunkRead, Len(ChunkRead) - 2), LF)
    /\ Strip(fBuffer \o Take(ChunkRead, Len(ChunkRead) - 2)) # <<>>

\* C32: no line the framer yields is empty or made of whitespace only; a
\* chunk of text followed by a carriage return and a newline yields exactly
\* one line, the text with what the buffer held before it; and after every
\* read the buffer holds the text received after the last delimiter, the
\* text of earlier chunks of the call included
C32_FramerLines ==
    /\ [](/\ \A k \in 1..Len(fLines) : Strip(fLines[k]) # <<>>
          /\ fBuffer = AfterLastDelimiter(DecodeCuts(fBytes, fCuts)))
    /\ [][CrLfChunk =>
             /\ fLines' = Append(fLines,
                   Strip(fBuffer \o Take(ChunkRead, Len(ChunkRead) - 2)))
             /\ fBuffer' = <<>>]_vars

\* "1" read alone and kept in the buffer, then "1\r\n" in one chunk: the
\* one line "11", nothing left
C32_Witness ==
    /\ fBytes = <<"1", "1", CR, LF>>
    /\ fCuts = <<1, 3>>
    /\ fLines = << <<"1", "1">> >>
    /\ fBuffer = <<>>

===========================================================================
